---------------------------- MODULE Spec2Model ----------------------------
(***************************************************************************)
(* DisConnection: the hook-dispatch protocol engine (common/packet.ts,     *)
(* common/protocol.ts, common/server.ts) and its two transports            *)
(* (transport/websocket.ts, transport/ipc.ts) as a state machine.          *)
(*                                                                         *)
(* The file src/sources/common/packet.ts holds packet.ts (lines 1-283)     *)
(* followed by protocol.ts (lines 284-549); the first revision found in    *)
(* each file under src/ is the one modelled.                               *)
(***************************************************************************)
EXTENDS Integers, Sequences, FiniteSets, TLC

(***************************************************************************)
(* Bounds of the model (not program constants).                            *)
(***************************************************************************)
\* frames received over all connections
MaxFrames == 2
\* registry calls (addHook, removeHook, removeAllHooks, toggleHooks)
MaxOps == 2
\* connections accepted over all transports
MaxConns == 2

(***************************************************************************)
(* JavaScript values.  t is the result of typeof.                          *)
(***************************************************************************)
Undefined == [t |-> "undefined"]
Null == [t |-> "object", null |-> TRUE]
Str(s) == [t |-> "string", s |-> s]
Num(n) == [t |-> "number", n |-> n]
Bool(b) == [t |-> "boolean", b |-> b]
\* an object with constructor ctor and own properties props
Obj(ctor, props) == [t |-> "object", null |-> FALSE, ctor |-> ctor, p |-> props]
NoProps == [x \in {} |-> Undefined]
Plain(props) == Obj("Object", props)

IsNullish(v) == v.t = "undefined" \/ (v.t = "object" /\ v.null)
IsStr(v, s) == v.t = "string" /\ v.s = s
\* o[k] of an object value that is not null
Get(o, k) == IF k \in DOMAIN o.p THEN o.p[k] ELSE Undefined

(***************************************************************************)
(* packet.ts: the catalog                                                  *)
(***************************************************************************)
codes == <<"INVITE_BROWSER", "GUILD_TEMPLATE_BROWSER", "AUTHORIZE", "DEEP_LINK", "SET_ACTIVITY">>
types == <<"CHANNEL">>

ready == [cmd |-> "DISPATCH", data |-> [v |-> 1, config |-> "null", user |-> "null"],
          evt |-> "READY", nonce |-> "null"]

\* checkRecord(record, keys, arg): "TypeError" when record is null
checkRecord(record, keys, arg) ==
  IF IsNullish(record) THEN "TypeError"
  ELSE IF \A i \in 1..Len(keys) : Get(record, keys[i]).t = arg THEN "true" ELSE "false"

\* the CHANNEL case of the switch(argsType) of isMessage
channelCheck(params) ==
  LET rec == checkRecord(params, <<"guildId", "channelId", "search", "fingerprint">>, "string")
  IN  IF rec = "TypeError" THEN "TypeError"
      ELSE IF rec = "false" \/ Get(params, "channelId").t # "undefined" THEN "false"
      ELSE "true"

\* a variant of isMessage that does not look at the constructor of data
isMessageOfAnyObject(data, cmd, argsType) ==
  IF data.t # "object" \/ data.null THEN "false"
  ELSE IF checkRecord(data, <<"cmd", "nonce">>, "string") # "true" THEN "false"
  ELSE IF Get(data, "args").t # "object" THEN "false"
  ELSE IF cmd # "" /\ Get(data, "cmd").s # cmd THEN "false"
  ELSE IF argsType = "" THEN "true"
  ELSE IF Get(data, "args").null THEN "TypeError"
  ELSE IF Get(Get(data, "args"), "params").t # "object" THEN "true"
  ELSE IF argsType = "CHANNEL" THEN channelCheck(Get(Get(data, "args"), "params"))
  ELSE "true"

\* isMessage(data, cmd?, argsType?): cmd is a code or "" (not given),
\* argsType is a type or "" (not given).  "true", "false" or "TypeError".
isMessage(data, cmd, argsType) ==
  IF data.t # "object" \/ data.null \/ data.ctor # "Object" THEN "false"
  ELSE IF checkRecord(data, <<"cmd", "nonce">>, "string") # "true" THEN "false"
  ELSE IF Get(data, "args").t # "object" THEN "false"
  ELSE IF cmd # "" /\ Get(data, "cmd").s # cmd THEN "false"
  ELSE IF argsType = "" THEN "true"
  ELSE IF Get(data, "args").null THEN "TypeError"
  ELSE IF Get(Get(data, "args"), "params").t # "object" THEN "true"
  ELSE IF argsType = "CHANNEL" THEN channelCheck(Get(Get(data, "args"), "params"))
  ELSE "true"

EndsWithBrowser(cmd) == cmd \in {"INVITE_BROWSER", "GUILD_TEMPLATE_BROWSER"}

\* message.args["code"] ?? null, as the JSON text of the value
argsCode(message) ==
  LET c == Get(Get(message, "args"), "code")
  IN  IF IsNullish(c) THEN "null" ELSE IF c.t = "string" THEN c.s ELSE "other"

\* messageDefaultResponse(message) throws a TypeError when message.args is
\* null and message.args["code"] is read (cmd ends with _BROWSER)
defaultResponseThrows(message) ==
  EndsWithBrowser(Get(message, "cmd").s) /\ Get(message, "args").null

\* messageDefaultResponse(message), when it does not throw
messageDefaultResponse(message) ==
  LET cmd == Get(message, "cmd").s
      nonce == Get(message, "nonce").s
  IN  IF EndsWithBrowser(cmd)
      THEN IF cmd = "GUILD_TEMPLATE_BROWSER"
           THEN [cmd |-> cmd,
                 data |-> [code |-> argsCode(message),
                           guildTemplate |-> [code |-> argsCode(message)]],
                 nonce |-> nonce]
           ELSE [cmd |-> cmd, data |-> [code |-> argsCode(message)], nonce |-> nonce]
      ELSE [cmd |-> cmd, data |-> "null", evt |-> "null", nonce |-> nonce]

(***************************************************************************)
(* The state.                                                              *)
(***************************************************************************)
\* the two transports of main.ts, one Protocol instance of each
Insts == {"WebSocket", "IPC"}

VARIABLES
  destroyed,  \* [Insts -> BOOLEAN]: Protocol.#destroyed
  own,        \* [Insts -> set of names]: own properties holding destroyFunc
  hooks,      \* [Insts -> [hook name -> entry]]: Protocol.#hooks
  console,    \* [Insts -> BOOLEAN]: Protocol.#console is defined
  busy,       \* [Insts -> set of ports]: candidates another process holds
  port,       \* [Insts -> Int]: the candidate tryServer is at
  servers,    \* [Insts -> [port -> "none"|"binding"|"listening"|"closed"]]
  details,    \* [Insts -> [has, st]]: this.details and its promise's state
  stopCalls,  \* [Insts -> Nat]: invocations of stopServer
  stopThen,   \* [Insts -> BOOLEAN]: stopServer's then-callback is registered
  conns,      \* [1..MaxConns -> connection]
  ops,        \* registry calls made so far
  unhandled,  \* set of uncaught exceptions and unhandled rejections
  builtins,   \* members of Object.prototype that were given a property "active"
  snapshot,   \* the array the application last got from getHooks
  call,       \* the registry call the application made last, with its outcome
  applied     \* a value, and what the function of packet.ts applied to it last gave

vars == <<destroyed, own, hooks, console, busy, port, servers, details,
          stopCalls, stopThen, conns, ops, unhandled, builtins,
          snapshot, call, applied>>

(***************************************************************************)
(* protocol.ts: hook names and the registry                                *)
(***************************************************************************)
\* `${code}_${type}`
hookNameOf(code, type) == IF code = "DEEP_LINK" /\ type = "CHANNEL" THEN "DEEP_LINK_CHANNEL" ELSE code

\* codes.flatMap(code => code === "DEEP_LINK" ? types.map(...) : code)
hookNames ==
  LET RECURSIVE flat(_)
      flat(i) == IF i > Len(codes) THEN <<>>
                 ELSE (IF codes[i] = "DEEP_LINK"
                       THEN [j \in 1..Len(types) |-> hookNameOf(codes[i], types[j])]
                       ELSE <<codes[i]>>) \o flat(i + 1)
  IN  flat(1)

hookNameSet == {hookNames[i] : i \in 1..Len(hookNames)}

\* callbacks a caller may register
Fns == {"f1", "f2"}

\* the entry destroy() leaves in place of every hook entry: both getters throw
destroyHook == [k |-> "destroyHook"]
Entry(list, active) == [k |-> "entry", list |-> list, active |-> active]

\* a variant of the initializer that starts with the lists switched off
initialHooksInactive == [n \in hookNameSet |-> Entry(<<>>, FALSE)]

\* the initializer of #hooks
initialHooks == [n \in hookNameSet |-> Entry(<<>>, TRUE)]

Ret(v) == [k |-> "return", v |-> v]
Throw(e) == [k |-> "throw", e |-> e]

\* Object.getOwnPropertyNames(Object.prototype): #hooks is a plain object, so
\* these keys are found by (name in this.#hooks) and by this.#hooks[name]
ObjectProto == {"constructor", "__defineGetter__", "__defineSetter__", "hasOwnProperty",
                "__lookupGetter__", "__lookupSetter__", "isPrototypeOf",
                "propertyIsEnumerable", "toString", "valueOf", "__proto__", "toLocaleString"}
\* name in this.#hooks
InHooks(name) == name \in hookNameSet \cup ObjectProto

Has(list, f) == \E j \in 1..Len(list) : list[j] = f
\* a variant of delete that drops the newest hook when f is in the list
WithoutLast(list, f) == IF Has(list, f) THEN SubSeq(list, 1, Len(list) - 1) ELSE list

\* Set.prototype.delete keeps the insertion order of the others
Without(list, f) == SelectSeq(list, LAMBDA x : x # f)

\* A method body: [out |-> what the call does, hooks |-> #hooks afterwards].
\* An own property holding destroyFunc shadows the prototype's method.
Poisoned(i, m) == m \in own[i]
Same(i, out) == [out |-> out, hooks |-> hooks[i], builtin |-> {}]

\* a variant of addHook that keeps an array: every call pushes the value
addHookAppending(i, name, value) ==
  IF Poisoned(i, "addHook") THEN Same(i, Throw("destroyError"))
  ELSE IF ~InHooks(name) \/ value \notin Fns THEN Same(i, Throw("TypeError"))
  ELSE IF name \in ObjectProto THEN Same(i, Throw("TypeError"))
  ELSE IF hooks[i][name].k = "destroyHook" THEN Same(i, Throw("destroyError"))
  ELSE LET e == hooks[i][name]
           list == Append(e.list, value)
       IN  [out |-> Ret(Num(Len(list))),
            hooks |-> [hooks[i] EXCEPT ![name] = Entry(list, e.active)], builtin |-> {}]

\* a variant of addHook that puts a new value in front of the list
addHookPrepending(i, name, value) ==
  IF Poisoned(i, "addHook") THEN Same(i, Throw("destroyError"))
  ELSE IF ~InHooks(name) \/ value \notin Fns THEN Same(i, Throw("TypeError"))
  ELSE IF name \in ObjectProto THEN Same(i, Throw("TypeError"))
  ELSE IF hooks[i][name].k = "destroyHook" THEN Same(i, Throw("destroyError"))
  ELSE LET e == hooks[i][name]
           wereAddedBefore == Has(e.list, value)
           list == IF wereAddedBefore THEN e.list ELSE <<value>> \o e.list
       IN  [out |-> Ret(IF wereAddedBefore THEN Bool(FALSE) ELSE Num(Len(list))),
            hooks |-> [hooks[i] EXCEPT ![name] = Entry(list, e.active)], builtin |-> {}]

\* addHook(name, value): Set.has, Set.add, then the size of the Set
addHook(i, name, value) ==
  IF Poisoned(i, "addHook") THEN Same(i, Throw("destroyError"))
  ELSE IF ~InHooks(name) \/ value \notin Fns THEN Same(i, Throw("TypeError"))
  \* the list of an inherited member is undefined: reading .has of it throws
  ELSE IF name \in ObjectProto THEN Same(i, Throw("TypeError"))
  ELSE IF hooks[i][name].k = "destroyHook" THEN Same(i, Throw("destroyError"))
  ELSE LET e == hooks[i][name]
           wereAddedBefore == Has(e.list, value)
           list == IF wereAddedBefore THEN e.list ELSE Append(e.list, value)
       IN  [out |-> Ret(IF wereAddedBefore THEN Bool(FALSE) ELSE Num(Len(list))),
            hooks |-> [hooks[i] EXCEPT ![name] = Entry(list, e.active)], builtin |-> {}]

removeHook(i, name, value) ==
  IF Poisoned(i, "removeHook") THEN Same(i, Throw("destroyError"))
  ELSE IF ~InHooks(name) \/ value \notin Fns THEN Same(i, Throw("TypeError"))
  ELSE IF name \in ObjectProto THEN Same(i, Throw("TypeError"))
  ELSE IF hooks[i][name].k = "destroyHook" THEN Same(i, Throw("destroyError"))
  ELSE LET e == hooks[i][name]
       IN  [out |-> Ret(Bool(Has(e.list, value))),
            hooks |-> [hooks[i] EXCEPT ![name] = Entry(Without(e.list, value), e.active)],
            builtin |-> {}]

\* a variant of removeAllHooks that reports true for an empty list too
removeAllHooksReportingTrue(i, name) ==
  IF Poisoned(i, "removeAllHooks") THEN Same(i, Throw("destroyError"))
  ELSE IF ~InHooks(name) \/ name \in ObjectProto THEN Same(i, Throw("TypeError"))
  ELSE IF hooks[i][name].k = "destroyHook" THEN Same(i, Throw("destroyError"))
  ELSE [out |-> Ret(Bool(TRUE)),
        hooks |-> [hooks[i] EXCEPT ![name] = Entry(<<>>, hooks[i][name].active)],
        builtin |-> {}]

\* a variant of removeAllHooks that switches the emptied list on again
removeAllHooksSwitchingOn(i, name) ==
  IF Poisoned(i, "removeAllHooks") THEN Same(i, Throw("destroyError"))
  ELSE IF ~InHooks(name) \/ name \in ObjectProto THEN Same(i, Throw("TypeError"))
  ELSE IF hooks[i][name].k = "destroyHook" THEN Same(i, Throw("destroyError"))
  ELSE [out |-> Ret(Bool(Len(hooks[i][name].list) > 0)),
        hooks |-> [hooks[i] EXCEPT ![name] = Entry(<<>>, TRUE)], builtin |-> {}]

\* removeAllHooks(name): the size before Set.clear decides the result
removeAllHooks(i, name) ==
  IF Poisoned(i, "removeAllHooks") THEN Same(i, Throw("destroyError"))
  \* [...undefined] throws for the list of an inherited member
  ELSE IF ~InHooks(name) \/ name \in ObjectProto THEN Same(i, Throw("TypeError"))
  ELSE IF hooks[i][name].k = "destroyHook" THEN Same(i, Throw("destroyError"))
  ELSE LET e == hooks[i][name]
       IN  [out |-> Ret(Bool(Len(e.list) > 0)),
            hooks |-> [hooks[i] EXCEPT ![name] = Entry(<<>>, e.active)], builtin |-> {}]

getHooks(i, name) ==
  IF Poisoned(i, "getHooks") THEN Throw("destroyError")
  ELSE IF ~InHooks(name) \/ name \in ObjectProto THEN Throw("TypeError")
  ELSE IF hooks[i][name].k = "destroyHook" THEN Throw("destroyError")
  ELSE Ret(hooks[i][name].list)

\* a variant that reports a non-empty list as active whatever its flag says
anyHooksActiveWithoutFlag(h, name) ==
  IF ~InHooks(name) \/ name \in ObjectProto THEN Throw("TypeError")
  ELSE IF h[name].k = "destroyHook" THEN Throw("destroyError")
  ELSE Ret(Bool(Len(h[name].list) > 0))

\* a variant that reports the flag whatever the list holds
anyHooksActiveIgnoringList(h, name) ==
  IF ~InHooks(name) \/ name \in ObjectProto THEN Throw("TypeError")
  ELSE IF h[name].k = "destroyHook" THEN Throw("destroyError")
  ELSE Ret(Bool(h[name].active))

\* the body of anyHooksActive on the registry h
anyHooksActiveIn(h, name) ==
  IF ~InHooks(name) \/ name \in ObjectProto THEN Throw("TypeError")
  ELSE IF h[name].k = "destroyHook" THEN Throw("destroyError")
  ELSE IF Len(h[name].list) = 0 THEN Ret(Bool(FALSE))
  ELSE Ret(Bool(h[name].active))

anyHooksActive(i, name) ==
  IF Poisoned(i, "anyHooksActive") THEN Throw("destroyError")
  ELSE anyHooksActiveIn(hooks[i], name)

\* a variant of toggleHooks that takes any value of active for its truth
toggleHooksCoercing(i, name, active) ==
  IF Poisoned(i, "toggleHooks") THEN Same(i, Throw("destroyError"))
  ELSE IF ~InHooks(name) \/ name \in ObjectProto THEN Same(i, Throw("TypeError"))
  ELSE IF hooks[i][name].k = "destroyHook" THEN Same(i, Throw("destroyError"))
  ELSE LET e == hooks[i][name]
           b == IF active.t = "undefined" THEN ~e.active
                ELSE IF active.t = "boolean" THEN active.b ELSE TRUE
           h == [hooks[i] EXCEPT ![name] = Entry(e.list, b)]
       IN  [out |-> (IF Poisoned(i, "anyHooksActive") THEN Throw("destroyError")
                     ELSE anyHooksActiveIn(h, name)),
            hooks |-> h, builtin |-> {}]

\* a variant of toggleHooks that returns the flag it has set
toggleHooksReturningFlag(i, name, active) ==
  IF Poisoned(i, "toggleHooks") THEN Same(i, Throw("destroyError"))
  ELSE IF active.t = "undefined" /\ ~InHooks(name) THEN Same(i, Throw("TypeError"))
  ELSE IF active.t = "undefined" /\ name \in hookNameSet /\ hooks[i][name].k = "destroyHook"
       THEN Same(i, Throw("destroyError"))
  ELSE IF ~InHooks(name) \/ active.t \notin {"undefined", "boolean"}
       THEN Same(i, Throw("TypeError"))
  ELSE IF name \in ObjectProto
       THEN [out |-> Throw("TypeError"), hooks |-> hooks[i], builtin |-> {name}]
  ELSE IF hooks[i][name].k = "destroyHook" THEN Same(i, Throw("destroyError"))
  ELSE LET e == hooks[i][name]
           b == IF active.t = "undefined" THEN ~e.active ELSE active.b
           h == [hooks[i] EXCEPT ![name] = Entry(e.list, b)]
       IN  [out |-> Ret(Bool(b)), hooks |-> h, builtin |-> {}]

\* toggleHooks(name, active = !this.#hooks[name].active); active is a
\* boolean value, Undefined (not given) or another value.  The default of
\* active is computed first: it reads .active of undefined for a name that
\* is not in #hooks.  For an inherited member the assignment gives the member
\* a property "active" before anyHooksActive throws on its missing list.
toggleHooks(i, name, active) ==
  IF Poisoned(i, "toggleHooks") THEN Same(i, Throw("destroyError"))
  ELSE IF active.t = "undefined" /\ ~InHooks(name) THEN Same(i, Throw("TypeError"))
  ELSE IF active.t = "undefined" /\ name \in hookNameSet /\ hooks[i][name].k = "destroyHook"
       THEN Same(i, Throw("destroyError"))
  ELSE IF ~InHooks(name) \/ active.t \notin {"undefined", "boolean"}
       THEN Same(i, Throw("TypeError"))
  ELSE IF name \in ObjectProto
       THEN [out |-> Throw("TypeError"), hooks |-> hooks[i], builtin |-> {name}]
  ELSE IF hooks[i][name].k = "destroyHook" THEN Same(i, Throw("destroyError"))
  ELSE LET e == hooks[i][name]
           b == IF active.t = "undefined" THEN ~e.active ELSE active.b
           h == [hooks[i] EXCEPT ![name] = Entry(e.list, b)]
       IN  [out |-> (IF Poisoned(i, "anyHooksActive") THEN Throw("destroyError")
                     ELSE anyHooksActiveIn(h, name)),
            hooks |-> h, builtin |-> {}]

\* log(...args): writes when a console is set
log(i) ==
  IF Poisoned(i, "log") THEN Throw("destroyError")
  ELSE Ret(IF console[i] THEN Str("written") ELSE Undefined)

\* error(...args) and debug(...args), as the transports call them
error(i) == IF Poisoned(i, "error") THEN Throw("destroyError") ELSE Ret(Undefined)
debug(i) == IF Poisoned(i, "debug") THEN Throw("destroyError") ELSE Ret(Undefined)

isDestroyed(i) ==
  IF Poisoned(i, "isDestroyed") THEN Throw("destroyError") ELSE Ret(Bool(destroyed[i]))

\* sanitize(this.name, "a-z", "_", "both"): only a-z is kept
sanitizedName(i) == IF i = "WebSocket" THEN "_eb_ocket" ELSE "___"
\* reading safeName: the getter of Protocol.prototype runs unless an own
\* property shadows it
safeName(i) ==
  IF Poisoned(i, "safeName") THEN Throw("destroyError") ELSE Ret(Str(sanitizedName(i)))

(***************************************************************************)
(* protocol.ts: destroy()                                                  *)
(***************************************************************************)
\* Object.getOwnPropertyNames of the prototypes destroy() walks: the
\* transport's class, Protocol, and Object.prototype (the loop stops at
\* Function.prototype or null only, so Object.prototype is visited)
TransportProto == {"constructor", "stopServer"}
ProtocolProto == {"constructor", "safeName", "log", "error", "debug", "isDestroyed",
                  "destroy", "addHook", "removeHook", "removeAllHooks", "getHooks",
                  "anyHooksActive", "toggleHooks"}

\* typeof this[key]: reading safeName runs the getter and gives a string
typeofMember(key) ==
  IF key = "safeName" THEN "string" ELSE IF key = "__proto__" THEN "object" ELSE "function"

\* a variant of the filter that spares log as well as isDestroyed
destroyFilterSparingLog(key) ==
  key \notin {"isDestroyed", "log"} /\ typeofMember(key) = "function"

\* the filter of destroy(): the keys that get destroyFunc
destroyFilter(key) == key # "isDestroyed" /\ typeofMember(key) = "function"

destroyMethods == {key \in TransportProto \cup ProtocolProto \cup ObjectProto : destroyFilter(key)}

\* what a call of destroy() does
destroy(i) ==
  IF Poisoned(i, "destroy") \/ destroyed[i] THEN Throw("destroyError") ELSE Ret(Undefined)

\* a variant that empties and poisons the hook lists before it calls stopServer
destroyStoppingLate(i, stopServerThrows) ==
  LET same(out) == [out |-> out, hooks |-> hooks[i], own |-> own[i],
                    console |-> console[i], destroyed |-> destroyed[i]]
  IN  IF Poisoned(i, "destroy") \/ destroyed[i] THEN same(Throw("destroyError"))
      ELSE IF stopServerThrows
      THEN [same(Throw("stopServerError")) EXCEPT !.hooks = [n \in hookNameSet |-> destroyHook]]
      ELSE [out |-> Ret(Undefined), hooks |-> [n \in hookNameSet |-> destroyHook],
            own |-> destroyMethods, console |-> FALSE, destroyed |-> TRUE]

\* destroy() of a transport whose stopServer (abstract in Protocol) throws or
\* returns: [out |-> the result of the call, and the private fields
\* afterwards].  this.stopServer() is called after the test of #destroyed
\* and before anything is changed, and its error is not caught.
destroyWith(i, stopServerThrows) ==
  LET same(out) == [out |-> out, hooks |-> hooks[i], own |-> own[i],
                    console |-> console[i], destroyed |-> destroyed[i]]
  IN  IF Poisoned(i, "destroy") \/ destroyed[i] THEN same(Throw("destroyError"))
      ELSE IF stopServerThrows THEN same(Throw("stopServerError"))
      ELSE [out |-> Ret(Undefined), hooks |-> [n \in hookNameSet |-> destroyHook],
            own |-> destroyMethods, console |-> FALSE, destroyed |-> TRUE]

(***************************************************************************)
(* server.ts: getServer(start, end, getter)                                *)
(***************************************************************************)
\* the ranges the two constructors pass to super()
WsStart == 6463
WsEnd == 6472
IpcStart == 0
IpcEnd == 9
rangeStart(i) == IF i = "WebSocket" THEN WsStart ELSE IpcStart
rangeEnd(i) == IF i = "WebSocket" THEN WsEnd ELSE IpcEnd
Ports(i) == IF rangeStart(i) > rangeEnd(i) THEN rangeEnd(i)..rangeStart(i)
            ELSE rangeStart(i)..rangeEnd(i)

\* a range test that leaves the last candidate out
outOfRangeEarly(start, end, p) == IF start > end THEN p <= end ELSE p >= end
\* a step that leaves every other candidate out
nextPortSkipping(start, end, p) == IF start > end THEN p - 2 ELSE p + 2

\* start > end ? port < end : port > end
outOfRange(start, end, p) == IF start > end THEN p < end ELSE p > end
\* start > end ? port-1 : port+1
nextPort(start, end, p) == IF start > end THEN p - 1 ELSE p + 1

\* tryServer(port), the candidates of busyPorts failing to bind: the
\* candidates getter was called with, in order, and the outcome of the promise
RECURSIVE tryServer(_, _, _, _)
tryServer(start, end, p, busyPorts) ==
  IF outOfRange(start, end, p)
  THEN [tried |-> <<>>, out |-> Throw("All ports from given range are busy!")]
  ELSE IF p \notin busyPorts THEN [tried |-> <<p>>, out |-> Ret(Num(p))]
  ELSE LET rest == tryServer(start, end, nextPort(start, end, p), busyPorts)
       IN  [tried |-> <<p>> \o rest.tried, out |-> rest.out]
\* getServer(start, end, getter), for integers start and end
getServer(start, end, busyPorts) == tryServer(start, end, start, busyPorts)

\* the state after the constructor: getter(start) has been called
initialServers(i) == [p \in Ports(i) |-> IF p = rangeStart(i) THEN "binding" ELSE "none"]

\* no array was handed out yet; no call was made yet
NoSnapshot == [has |-> FALSE, inst |-> "", name |-> "", live |-> FALSE, items |-> <<>>]
NoCall == [op |-> "none", inst |-> "", name |-> "", value |-> "", active |-> Undefined,
           out |-> Ret(Undefined), before |-> initialHooks, after |-> initialHooks]

\* a then-callback that is ready to run: it runs before any I/O event
StopThenReady(i) == stopThen[i] /\ details[i].st = "resolved"

NoConn == [st |-> "none", inst |-> "", origin |-> "", out |-> <<>>, buf |-> <<>>,
           frames |-> <<>>]

\* fan-ins whose Promise.all has resolved and whose then-callback has not run
FanInReady(c, k) ==
  /\ k \in 1..Len(conns[c].frames)
  /\ conns[c].frames[k].st = "fanin"
  /\ \A j \in 1..Len(conns[c].frames[k].res) : conns[c].frames[k].res[j].t # "pending"

MicrotaskPending ==
  \/ \E i \in Insts : StopThenReady(i)
  \/ \E c \in 1..MaxConns : \E k \in 1..Len(conns[c].frames) : FanInReady(c, k)

\* the "listening" event of the candidate server
Listening(i) ==
  /\ ~MicrotaskPending
  /\ details[i].st = "pending"
  /\ servers[i][port[i]] = "binding"
  /\ port[i] \notin busy[i]
  /\ servers' = [servers EXCEPT ![i][port[i]] = "listening"]
  /\ details' = [details EXCEPT ![i].st = "resolved"]
  /\ UNCHANGED <<applied, call, snapshot, builtins, destroyed, own, hooks, console, busy, port, stopCalls, stopThen,
                 conns, ops, unhandled>>

\* a variant of the "error" listener that leaves the failed server as it is
BindErrorLeavingServer(i) ==
  /\ ~MicrotaskPending
  /\ details[i].st = "pending"
  /\ servers[i][port[i]] = "binding"
  /\ port[i] \in busy[i]
  /\ LET next == nextPort(rangeStart(i), rangeEnd(i), port[i])
     IN  IF outOfRange(rangeStart(i), rangeEnd(i), next)
         THEN /\ details' = [details EXCEPT ![i].st = "rejected"]
              /\ unhandled' = unhandled \cup {<<i, "negotiation">>}
                                \cup (IF stopThen[i] THEN {<<i, "stopServer">>} ELSE {})
              /\ stopThen' = [stopThen EXCEPT ![i] = FALSE]
              /\ UNCHANGED <<port, servers>>
         ELSE /\ servers' = [servers EXCEPT ![i][next] = "binding"]
              /\ port' = [port EXCEPT ![i] = next]
              /\ UNCHANGED <<details, unhandled, stopThen>>
  /\ UNCHANGED <<applied, call, snapshot, builtins, destroyed, own, hooks, console, busy, stopCalls, conns, ops>>

\* the "error" event of the candidate server: resolve(tryServer(next)); server.close()
BindError(i) ==
  /\ ~MicrotaskPending
  /\ details[i].st = "pending"
  /\ servers[i][port[i]] = "binding"
  /\ port[i] \in busy[i]
  /\ LET next == nextPort(rangeStart(i), rangeEnd(i), port[i])
     IN  IF outOfRange(rangeStart(i), rangeEnd(i), next)
         THEN /\ servers' = [servers EXCEPT ![i][port[i]] = "closed"]
              /\ details' = [details EXCEPT ![i].st = "rejected"]
              /\ unhandled' = unhandled \cup {<<i, "negotiation">>}
                                \cup (IF stopThen[i] THEN {<<i, "stopServer">>} ELSE {})
              /\ stopThen' = [stopThen EXCEPT ![i] = FALSE]
              /\ UNCHANGED port
         ELSE /\ servers' = [servers EXCEPT ![i][port[i]] = "closed", ![i][next] = "binding"]
              /\ port' = [port EXCEPT ![i] = next]
              /\ UNCHANGED <<details, unhandled, stopThen>>
  /\ UNCHANGED <<applied, call, snapshot, builtins, destroyed, own, hooks, console, busy, stopCalls, conns, ops>>

\* stopServer(): void this.details?.then(({server}) => {...})
\* destroy(): the whole method
Destroy(i) ==
  IF destroy(i).k = "throw" THEN UNCHANGED vars
  ELSE /\ stopCalls' = [stopCalls EXCEPT ![i] = @ + 1]
       /\ stopThen' = [stopThen EXCEPT ![i] = details[i].has /\ details[i].st # "rejected"]
       /\ unhandled' = IF details[i].has /\ details[i].st = "rejected"
                       THEN unhandled \cup {<<i, "stopServer">>} ELSE unhandled
       /\ hooks' = [hooks EXCEPT ![i] = [n \in hookNameSet |-> destroyHook]]
       /\ own' = [own EXCEPT ![i] = destroyMethods]
       /\ console' = [console EXCEPT ![i] = FALSE]
       /\ destroyed' = [destroyed EXCEPT ![i] = TRUE]
       /\ UNCHANGED <<busy, port, servers, details, conns, ops, builtins, snapshot, call, applied>>

\* a variant of the then-callback that closes the server and keeps this.details
StopServerThenKeepingDetails(i) ==
  /\ StopThenReady(i)
  /\ servers' = [servers EXCEPT ![i][port[i]] = "closed"]
  /\ stopThen' = [stopThen EXCEPT ![i] = FALSE]
  /\ UNCHANGED <<applied, call, snapshot, builtins, destroyed, own, hooks, console, busy, port, details, stopCalls, conns,
                 ops, unhandled>>

\* the then-callback of stopServer: server.close(); delete this.details
StopServerThen(i) ==
  /\ StopThenReady(i)
  /\ servers' = [servers EXCEPT ![i][port[i]] = "closed"]
  /\ details' = [details EXCEPT ![i].has = FALSE]
  /\ stopThen' = [stopThen EXCEPT ![i] = FALSE]
  /\ UNCHANGED <<applied, call, snapshot, builtins, destroyed, own, hooks, console, busy, port, stopCalls, conns, ops,
                 unhandled>>

(***************************************************************************)
(* Calls of the registry's public methods                                  *)
(***************************************************************************)
\* the values a caller passes as active: true, false, or nothing
Actives == {Bool(TRUE), Bool(FALSE), Undefined}

\* a variant with one registry for all instances (a static #hooks)
RegistryOfAllInstances(i, r) ==
  /\ ops < MaxOps
  /\ ops' = ops + 1
  /\ hooks' = [j \in Insts |-> r.hooks]
  /\ builtins' = builtins \cup r.builtin
  /\ UNCHANGED <<destroyed, own, console, busy, port, servers, details, stopCalls,
                 stopThen, conns, unhandled, snapshot, call, applied>>

\* what a registry method with result r writes on instance i
Effect(i, r) ==
  /\ hooks' = [hooks EXCEPT ![i] = r.hooks]
  /\ builtins' = builtins \cup r.builtin
  /\ UNCHANGED <<destroyed, own, console, busy, port, servers, details, stopCalls,
                 stopThen, conns, unhandled>>

\* a call of a registry method with result r on instance i
Registry(i, r) ==
  /\ ops < MaxOps
  /\ ops' = ops + 1
  /\ Effect(i, r)
  /\ UNCHANGED <<snapshot, call, applied>>

AddHook(i, name, value) == Registry(i, addHook(i, name, value))
RemoveHook(i, name, value) == Registry(i, removeHook(i, name, value))
RemoveAllHooks(i, name) == Registry(i, removeAllHooks(i, name))
ToggleHooks(i, name, active) == Registry(i, toggleHooks(i, name, active))

(***************************************************************************)
(* Decoded candidates a client may send (parsedData / data)                *)
(***************************************************************************)
Arr == Obj("Array", NoProps)
Payloads == <<
  \* 1: {"cmd":"AUTHORIZE","nonce":"n1","args":{"scopes":["identify"],"client_id":"123"}}
  [bin |-> FALSE,
   val |-> Plain([cmd |-> Str("AUTHORIZE"), nonce |-> Str("n1"),
                  args |-> Plain([scopes |-> Arr, client_id |-> Str("123")])])],
  \* 2: {"cmd":"GUILD_TEMPLATE_BROWSER","nonce":"n2","args":{"code":"abc"}}
  [bin |-> FALSE,
   val |-> Plain([cmd |-> Str("GUILD_TEMPLATE_BROWSER"), nonce |-> Str("n2"),
                  args |-> Plain([code |-> Str("abc")])])],
  \* 3: {"cmd":"DEEP_LINK","nonce":"n3","args":{"type":"CHANNEL"}}
  [bin |-> FALSE,
   val |-> Plain([cmd |-> Str("DEEP_LINK"), nonce |-> Str("n3"),
                  args |-> Plain([type |-> Str("CHANNEL")])])],
  \* 4: {"cmd":"GET_GUILDS","nonce":"n4","args":{}}
  [bin |-> FALSE,
   val |-> Plain([cmd |-> Str("GET_GUILDS"), nonce |-> Str("n4"), args |-> Plain(NoProps)])],
  \* 5: the text hello, which JSON.parse rejects
  [bin |-> FALSE, val |-> Str("hello")],
  \* 6: a binary frame whose bytes are the text
  \*    {"cmd":"AUTHORIZE","nonce":"n6","args":{"scopes":[],"client_id":"123"}}
  [bin |-> TRUE,
   val |-> Plain([cmd |-> Str("AUTHORIZE"), nonce |-> Str("n6"),
                  args |-> Plain([scopes |-> Arr, client_id |-> Str("123")])])],
  \* 7: {"cmd":"GET_GUILDS","nonce":"n7","args":null}
  [bin |-> FALSE,
   val |-> Plain([cmd |-> Str("GET_GUILDS"), nonce |-> Str("n7"), args |-> Null])],
  \* 8: {"cmd":"DEEP_LINK","nonce":"n8","args":{"type":"CHANNEL","params":null}}
  [bin |-> FALSE,
   val |-> Plain([cmd |-> Str("DEEP_LINK"), nonce |-> Str("n8"),
                  args |-> Plain([type |-> Str("CHANNEL"), params |-> Null])])],
  \* 9: {"cmd":"DEEP_LINK","nonce":"n9","args":null}
  [bin |-> FALSE,
   val |-> Plain([cmd |-> Str("DEEP_LINK"), nonce |-> Str("n9"), args |-> Null])],
  \* 10: {"cmd":"DEEP_LINK","nonce":"n10","args":{"type":"GUILD"}}
  [bin |-> FALSE,
   val |-> Plain([cmd |-> Str("DEEP_LINK"), nonce |-> Str("n10"),
                  args |-> Plain([type |-> Str("GUILD")])])],
  \* 11: {"cmd":"DEEP_LINK","nonce":"n11","args":{}}
  [bin |-> FALSE,
   val |-> Plain([cmd |-> Str("DEEP_LINK"), nonce |-> Str("n11"), args |-> Plain(NoProps)])],
  \* 12: {"cmd":"DEEP_LINK","nonce":"n12","args":{"type":"CHANNEL","params":
  \*      {"guildId":"1","channelId":"2","search":"","fingerprint":"f"}}}
  [bin |-> FALSE,
   val |-> Plain([cmd |-> Str("DEEP_LINK"), nonce |-> Str("n12"),
                  args |-> Plain([type |-> Str("CHANNEL"),
                                  params |-> Plain([guildId |-> Str("1"), channelId |-> Str("2"),
                                                    search |-> Str(""),
                                                    fingerprint |-> Str("f")])])])],
  \* 13: {"cmd":"INVITE_BROWSER","nonce":"n13","args":null}
  [bin |-> FALSE,
   val |-> Plain([cmd |-> Str("INVITE_BROWSER"), nonce |-> Str("n13"), args |-> Null])]
>>
\* let parsedData = packet; if(!isBinary) parsedData = JSON.parse(...) or the
\* text: val is what the bytes of a frame decode to, a binary frame stays
\* the Buffer it came in
parsedData(pid) == IF Payloads[pid].bin THEN Obj("Buffer", NoProps) ELSE Payloads[pid].val

\* the candidate has a null where args or args.params is read
HasNull(v) ==
  /\ v.t = "object" /\ ~v.null /\ v.ctor = "Object"
  /\ Get(v, "args").t = "object"
  /\ \/ Get(v, "args").null
     \/ Get(Get(v, "args"), "params").t = "object" /\ Get(Get(v, "args"), "params").null
\* the frames with no null for args or params
NoNulls == {pid \in 1..Len(Payloads) : ~HasNull(parsedData(pid))}
\* the frames of a client that sends objects for args and params and the
\* deep links in their plain form: type CHANNEL and no params
Inputs == {pid \in NoNulls :
             LET v == Payloads[pid].val
             IN  (v.t = "object" /\ IsStr(Get(v, "cmd"), "DEEP_LINK"))
                   => /\ IsStr(Get(Get(v, "args"), "type"), "CHANNEL")
                      /\ Get(Get(v, "args"), "params").t = "undefined"}

(***************************************************************************)
(* websocket.ts, ipc.ts: the frame handler                                 *)
(***************************************************************************)
\* WebSocketClose
InvalidPayload == 1007
UnsupportedData == 1003
PolicyViolation == 1008

\* knownPacketID.types.some(type => isMessage(parsedData, code, type) ...)
RECURSIVE probeTypes(_, _, _)
probeTypes(data, code, j) ==
  IF j > Len(types) THEN [k |-> "none"]
  ELSE LET r == isMessage(data, code, types[j])
       IN  IF r = "TypeError" THEN [k |-> "throw"]
           ELSE IF r = "true" THEN [k |-> "match", name |-> hookNameOf(code, types[j])]
           ELSE probeTypes(data, code, j + 1)

\* knownPacketID.codes.some(code => ...): the first code (and type) that matches
RECURSIVE probe(_, _)
probe(data, idx) ==
  IF idx > Len(codes) THEN [k |-> "none"]
  ELSE LET m == IF codes[idx] = "DEEP_LINK" THEN probeTypes(data, codes[idx], 1)
                ELSE IF isMessage(data, codes[idx], "") = "true"
                     THEN [k |-> "match", name |-> codes[idx]]
                     ELSE [k |-> "none"]
       IN  IF m.k = "none" THEN probe(data, idx + 1) ELSE m

Pending == [t |-> "pending"]
Rejected == [t |-> "rejected"]

\* a request without an Origin header: req.headers.origin is undefined
NoOrigin == "(no Origin header)"

\* req.headers.origin ?? null on WebSocket, null on IPC
originArg(i, cn) == IF i = "WebSocket" /\ cn.origin # NoOrigin THEN cn.origin ELSE "null"

Frame(pid, name, hs, st, arg) ==
  [pid |-> pid, name |-> name, hooks |-> hs, res |-> [j \in 1..Len(hs) |-> Pending],
   st |-> st, arg |-> arg]

\* a variant that calls the first hook of the list only
startFirstHook(pid, name, hs, arg) == Frame(pid, name, SubSeq(hs, 1, 1), "fanin", arg)

\* hooks.map(hook => hook(message, origin)): every hook is called, in order,
\* before Promise.all is given the promises
startHooks(pid, name, hs, arg) == Frame(pid, name, hs, "fanin", arg)

\* client.send(text) / socket.write(buffer), for frame k
clientSend(cn, k, v) ==
  [cn EXCEPT !.out = Append(@, [op |-> "send", f |-> k, v |-> v, open |-> cn.st = "open"])]

\* client.close(code, reason) on WebSocket, socket.destroy() on IPC; the
\* reason is "" when none is given
clientCloseWith(i, cn, k, code, reason) ==
  [cn EXCEPT !.out = Append(@, [op |-> "close", f |-> k,
                                v |-> IF i = "WebSocket" THEN Num(code) ELSE Undefined,
                                reason |-> IF i = "WebSocket" THEN reason ELSE "",
                                open |-> cn.st = "open"]),
             !.st = "closed"]
\* client.close(code)
clientClose(i, cn, k, code) == clientCloseWith(i, cn, k, code, "")

AddFrame(cn, fr) == [cn EXCEPT !.frames = Append(@, fr)]

\* typeof parsedData.args["type"] === "string" ?
\*   parsedData.cmd+"_"+parsedData.args["type"] : parsedData.cmd
requestType(data) ==
  LET type == Get(Get(data, "args"), "type")
  IN  IF type.t = "string" THEN Get(data, "cmd").s \o "_" \o type.s ELSE Get(data, "cmd").s
notSupportedMsg(data) ==
  "Request of type: '" \o requestType(data) \o "' is currently not supported."
\* `${parsedData as string}` of a text that is no JSON is the text; a parsed
\* value that is an object reads [object Object]
packedTextMsg(data) ==
  "Could not handle the packed text data: '"
    \o (IF data.t = "string" THEN data.s ELSE "[object Object]") \o "'."

\* the handler of one frame with no match: the three error branches
unmatched(i, cn, pid) ==
  LET data == parsedData(pid)
      k == Len(cn.frames) + 1
      arg == originArg(i, cn)
      threw == [conn |-> AddFrame(cn, Frame(pid, "", <<>>, "threw", arg)), thrown |-> TRUE]
      closed(code, msg) ==
        [conn |-> clientCloseWith(i, AddFrame(cn, Frame(pid, "", <<>>, "unmatched", arg)),
                                  k, code, msg),
         thrown |-> FALSE]
  IN  IF isMessage(data, "", "") = "true"
      THEN IF Get(data, "args").null \/ error(i).k = "throw" \/ debug(i).k = "throw"
           THEN threw ELSE closed(InvalidPayload, notSupportedMsg(data))
      ELSE IF error(i).k = "throw" THEN threw
      ELSE IF ~Payloads[pid].bin THEN closed(InvalidPayload, packedTextMsg(data))
      ELSE closed(UnsupportedData, "Unknown data transfer")

\* the handler of one frame: [conn |-> the connection afterwards,
\* thrown |-> the handler threw]
handle(i, cn, pid) ==
  LET data == parsedData(pid)
      k == Len(cn.frames) + 1
      arg == originArg(i, cn)
      m == probe(data, 1)
      threw == [conn |-> AddFrame(cn, Frame(pid, "", <<>>, "threw", arg)), thrown |-> TRUE]
  IN  IF m.k = "throw" THEN threw
      ELSE IF m.k = "none" THEN unmatched(i, cn, pid)
      ELSE LET hs == getHooks(i, m.name)
               isActive == anyHooksActive(i, m.name)
           IN  IF hs.k = "throw" \/ isActive.k = "throw" THEN threw
               ELSE IF isActive.v.b
                    THEN [conn |-> AddFrame(cn, startHooks(pid, m.name, hs.v, arg)),
                          thrown |-> FALSE]
               ELSE IF defaultResponseThrows(data) THEN threw
               ELSE [conn |-> clientSend(AddFrame(cn, Frame(pid, m.name, <<>>, "sentNow", arg)),
                                         k, messageDefaultResponse(data)),
                     thrown |-> FALSE]

\* for(const message of parsePacket(...)): an exception ends the loop
RECURSIVE handleAll(_, _, _)
handleAll(i, cn, pids) ==
  IF pids = <<>> THEN [conn |-> cn, thrown |-> FALSE]
  ELSE LET r == handle(i, cn, Head(pids))
       IN  IF r.thrown THEN r ELSE handleAll(i, r.conn, Tail(pids))

RECURSIVE SumLen(_, _)
SumLen(f, c) == IF c = 0 THEN 0 ELSE Len(conns[c].frames) * f[1] + Len(conns[c].buf) * f[2]
                                     + SumLen(f, c - 1)
\* frames handled, and frames handled or collected, over all connections
Handled == SumLen(<<1, 0>>, MaxConns)
Received == SumLen(<<1, 1>>, MaxConns)

(***************************************************************************)
(* websocket.ts, ipc.ts: connections                                       *)
(***************************************************************************)
StartsWith(s, prefix) == Len(s) >= Len(prefix) /\ SubSeq(s, 1, Len(prefix)) = prefix
\* /^https:\/\/(?:[a-z]+)\.discord\.com$/.test(s), a pattern of the allow-list
discordSubdomain(s) ==
  LET suffix == ".discord.com"
      first == Len("https://") + 1
      last == Len(s) - Len(suffix)
  IN  /\ StartsWith(s, "https://")
      /\ first <= last /\ SubSeq(s, last + 1, Len(s)) = suffix
      /\ \A n \in first..last :
           SubSeq(s, n, n) \in {"a", "b", "c", "d", "e", "f", "g", "h", "i", "j", "k", "l", "m",
                                "n", "o", "p", "q", "r", "s", "t", "u", "v", "w", "x", "y", "z"}
\* /^https:\/\/(?!canary|ptb)(?:[a-z]+)\.discord\.com$/.test(s)
discordServices(s) ==
  /\ discordSubdomain(s)
  /\ ~StartsWith(s, "https://canary") /\ ~StartsWith(s, "https://ptb")
\* rule.test(s)
test(re, s) == IF re = "discordServices" THEN discordServices(s) ELSE discordSubdomain(s)

\* passingRule(rule), for the Origin header of the request
passingRule(rule, origin) ==
  \/ rule.k = "string" /\ origin # NoOrigin /\ rule.v = origin
  \/ rule.k = "regexp" /\ test(rule.v, IF origin = NoOrigin THEN "" ELSE origin)

\* the allow-list given to the WebSocket constructor, and origins of clients
\* (a rule is a string or a RegExp, named by its operator)
validOrigins == {[k |-> "string", v |-> "https://allowed.example"],
                 [k |-> "string", v |-> "127.0.0.1"],
                 [k |-> "regexp", v |-> "discordSubdomain"]}
\* the hard-coded blocklist
unsupportedOrigins == {[k |-> "regexp", v |-> "discordServices"],
                       [k |-> "string", v |-> "127.0.0.1"]}
Origins == {"https://allowed.example", "https://other.example", "127.0.0.1"}
\* origins of every relation to the two lists, and a request without one
AllOrigins == Origins \cup {"https://app.discord.com", "https://canary.discord.com",
                            "https://discord.com", "https://ptb.discord.com",
                            "https://app.discord.com.other.example", NoOrigin}

\* a blocklist that holds the string rules only
unsupportedByStringOnly(origin) ==
  \E rule \in unsupportedOrigins : rule.k = "string" /\ passingRule(rule, origin)
\* validOrigins.find(passingRule) !== undefined
trusted(origin) == \E rule \in validOrigins : passingRule(rule, origin)
\* unsupportedOrigins.find(passingRule) !== undefined
unsupported(origin) == \E rule \in unsupportedOrigins : passingRule(rule, origin)

Accepting(i) == details[i].st = "resolved" /\ servers[i][port[i]] = "listening"

FreeSlot(c) == conns[c].st = "none" /\ \A d \in 1..(c - 1) : conns[d].st # "none"

\* server.on("connection", (client, req) => ...) of WebSocketProtocol
WsConnection(c, origin) ==
  /\ ~MicrotaskPending
  /\ Accepting("WebSocket")
  /\ FreeSlot(c)
  /\ LET cn == [NoConn EXCEPT !.st = "open", !.inst = "WebSocket", !.origin = origin]
         blocked == ~trusted(origin) \/ unsupported(origin)
         thrown == blocked /\ debug("WebSocket").k = "throw"
     IN  /\ conns' = [conns EXCEPT ![c] =
                        IF thrown THEN cn
                        ELSE IF blocked
                             THEN clientCloseWith("WebSocket", cn, 0, PolicyViolation,
                                                  IF ~trusted(origin) THEN "Client is not trusted."
                                                  ELSE "Client is not supported.")
                        ELSE clientSend(cn, 0, ready)]
         /\ unhandled' = IF thrown THEN unhandled \cup {<<"WebSocket", "handler">>}
                         ELSE unhandled
  /\ UNCHANGED <<applied, call, snapshot, builtins, destroyed, own, hooks, console, busy, port, servers, details,
                 stopCalls, stopThen, ops>>

\* a connection handler that writes nothing to the socket
IpcConnectionSilent(c) ==
  /\ ~MicrotaskPending
  /\ Accepting("IPC")
  /\ FreeSlot(c)
  /\ conns' = [conns EXCEPT ![c] = [NoConn EXCEPT !.st = "open", !.inst = "IPC", !.origin = "null"]]
  /\ UNCHANGED <<applied, call, snapshot, builtins, destroyed, own, hooks, console, busy, port, servers, details,
                 stopCalls, stopThen, ops, unhandled>>

\* server.on("connection", socket => ...) of IpcProtocol
IpcConnection(c) ==
  /\ ~MicrotaskPending
  /\ Accepting("IPC")
  /\ FreeSlot(c)
  /\ conns' = [conns EXCEPT ![c] =
                 clientSend([NoConn EXCEPT !.st = "open", !.inst = "IPC", !.origin = "null"],
                            0, ready)]
  /\ UNCHANGED <<applied, call, snapshot, builtins, destroyed, own, hooks, console, busy, port, servers, details,
                 stopCalls, stopThen, ops, unhandled>>

\* the peer closes the connection
ConnClose(c) ==
  /\ ~MicrotaskPending
  /\ conns[c].st = "open"
  /\ conns' = [conns EXCEPT ![c].st = "closed"]
  /\ UNCHANGED <<applied, call, snapshot, builtins, destroyed, own, hooks, console, busy, port, servers, details,
                 stopCalls, stopThen, ops, unhandled>>

Uncaught(i, r) == IF r.thrown THEN unhandled \cup {<<i, "handler">>} ELSE unhandled

\* client.on("message", (packet, isBinary) => ...)
WsMessage(c, pid) ==
  /\ ~MicrotaskPending
  /\ conns[c].st = "open"
  /\ conns[c].inst = "WebSocket"
  /\ Received < MaxFrames
  /\ LET r == handle("WebSocket", conns[c], pid)
     IN  /\ conns' = [conns EXCEPT ![c] = r.conn]
         /\ unhandled' = Uncaught("WebSocket", r)
  /\ UNCHANGED <<applied, call, snapshot, builtins, destroyed, own, hooks, console, busy, port, servers, details,
                 stopCalls, stopThen, ops>>

\* socket.on("data", packet => void pacCollect.push(packet))
IpcData(c, pid) ==
  /\ ~MicrotaskPending
  /\ conns[c].st = "open"
  /\ conns[c].inst = "IPC"
  /\ Received < MaxFrames
  /\ conns' = [conns EXCEPT ![c].buf = Append(@, pid)]
  /\ UNCHANGED <<applied, call, snapshot, builtins, destroyed, own, hooks, console, busy, port, servers, details,
                 stopCalls, stopThen, ops, unhandled>>

\* socket.on("drain", () => { for(...) {...}; pacCollect.length=0; })
IpcDrain(c) ==
  /\ ~MicrotaskPending
  /\ conns[c].st = "open"
  /\ conns[c].inst = "IPC"
  /\ conns[c].buf # <<>>
  /\ Received <= MaxFrames
  /\ LET r == handleAll("IPC", conns[c], conns[c].buf)
     IN  /\ conns' = [conns EXCEPT ![c] =
                        IF r.thrown THEN r.conn ELSE [r.conn EXCEPT !.buf = <<>>]]
         /\ unhandled' = Uncaught("IPC", r)
  /\ UNCHANGED <<applied, call, snapshot, builtins, destroyed, own, hooks, console, busy, port, servers, details,
                 stopCalls, stopThen, ops>>

(***************************************************************************)
(* Hooks and the fan-in                                                    *)
(***************************************************************************)
\* what the promise of each callback may resolve with; either may reject
ResultsOf(f) == IF f = "f1" THEN {Undefined, Num(4003)} ELSE {Num(0), Num(-1), Num(4004)}
Results == UNION {ResultsOf(f) : f \in Fns}

\* hook j of frame k of connection c settles: it resolves with r or rejects.
\* Promise.all rejects with the first rejection, and nothing handles it.
HookSettle(c, k, j, r) ==
  /\ ~MicrotaskPending
  /\ k \in 1..Len(conns[c].frames)
  /\ conns[c].frames[k].st = "fanin"
  /\ j \in 1..Len(conns[c].frames[k].res)
  /\ conns[c].frames[k].res[j].t = "pending"
  /\ r \in ResultsOf(conns[c].frames[k].hooks[j]) \cup {Rejected}
  /\ IF r.t = "rejected"
     THEN /\ conns' = [conns EXCEPT ![c].frames[k].st = "rejected",
                                    ![c].frames[k].hooks = <<>>,
                                    ![c].frames[k].res = <<>>]
          /\ unhandled' = unhandled \cup {<<conns[c].inst, "hookRejected">>}
     ELSE /\ conns' = [conns EXCEPT ![c].frames[k].res[j] = r]
          /\ UNCHANGED unhandled
  /\ UNCHANGED <<applied, call, snapshot, builtins, destroyed, own, hooks, console, busy, port, servers, details,
                 stopCalls, stopThen, ops>>

IsCode(r) == r.t = "number" /\ r.n > 0
\* a search that keeps the last number above 0 of the array
RECURSIVE findLast(_, _)
findLast(result, j) ==
  IF j > Len(result) THEN Undefined
  ELSE LET rest == findLast(result, j + 1)
       IN  IF rest.t # "undefined" THEN rest
           ELSE IF IsCode(result[j]) THEN result[j] ELSE Undefined

\* result.find(code => typeof code === "number" && code > 0)
RECURSIVE find(_, _)
find(result, j) ==
  IF j > Len(result) THEN Undefined
  ELSE IF IsCode(result[j]) THEN result[j] ELSE find(result, j + 1)

\* a then-callback that reads the registry again: the results count only
\* while the list of the frame's name still holds a hook and is active
fanInRereading(i, cn, k) ==
  LET fr == cn.frames[k]
      isActive == anyHooksActive(i, fr.name)
      code == IF isActive.k = "return" /\ isActive.v.b THEN find(fr.res, 1) ELSE Undefined
      done(st) == [cn EXCEPT !.frames[k].st = st, !.frames[k].hooks = <<>>,
                             !.frames[k].res = <<>>]
  IN  IF code.t = "undefined"
      THEN [conn |-> clientSend(done("sent"), k, messageDefaultResponse(parsedData(fr.pid))),
            thrown |-> FALSE]
      ELSE [conn |-> clientClose(i, done("closed"), k, code.n), thrown |-> FALSE]

\* the then-callback of Promise.all for frame k of connection c
fanIn(i, cn, k) ==
  LET fr == cn.frames[k]
      code == find(fr.res, 1)
      done(st) == [cn EXCEPT !.frames[k].st = st, !.frames[k].hooks = <<>>,
                             !.frames[k].res = <<>>]
  IN  IF code.t = "undefined"
      THEN IF defaultResponseThrows(parsedData(fr.pid))
           THEN [conn |-> done("failed"), thrown |-> TRUE]
           ELSE [conn |-> clientSend(done("sent"), k, messageDefaultResponse(parsedData(fr.pid))),
                 thrown |-> FALSE]
      ELSE IF debug(i).k = "throw" THEN [conn |-> done("failed"), thrown |-> TRUE]
      ELSE [conn |-> clientClose(i, done("closed"), k, code.n), thrown |-> FALSE]

FanIn(c, k) ==
  /\ FanInReady(c, k)
  /\ LET r == fanIn(conns[c].inst, conns[c], k)
     IN  /\ conns' = [conns EXCEPT ![c] = r.conn]
         /\ unhandled' = IF r.thrown THEN unhandled \cup {<<conns[c].inst, "fanIn">>}
                         ELSE unhandled
  /\ UNCHANGED <<applied, call, snapshot, builtins, destroyed, own, hooks, console, busy, port, servers, details,
                 stopCalls, stopThen, ops>>

(***************************************************************************)
(* The specification                                                       *)
(***************************************************************************)
\* candidates held by other processes: none, the first, or all of them
BusyChoices(i) == {{}, {rangeStart(i)}, Ports(i)}

\* sinks[i]: the constructor of i was given a console (not null)
Constructed(b, sinks) ==
  /\ destroyed = [i \in Insts |-> FALSE]
  /\ own = [i \in Insts |-> {}]
  /\ hooks = [i \in Insts |-> initialHooks]
  /\ console = sinks
  /\ busy = b
  /\ port = [i \in Insts |-> rangeStart(i)]
  /\ servers = [i \in Insts |-> initialServers(i)]
  /\ details = [i \in Insts |-> [has |-> TRUE, st |-> "pending"]]
  /\ stopCalls = [i \in Insts |-> 0]
  /\ stopThen = [i \in Insts |-> FALSE]
  /\ conns = [c \in 1..MaxConns |-> NoConn]
  /\ ops = 0
  /\ unhandled = {}
  /\ builtins = {}
  /\ snapshot = NoSnapshot
  /\ call = NoCall

\* a value v no function was applied to yet
Given(v) == [fn |-> "none", data |-> v, cmd |-> "", type |-> "", is |-> "", resp |-> Ret(Undefined)]

InitWith(b) == Constructed(b, [i \in Insts |-> TRUE]) /\ applied = Given(Undefined)

\* hook names the application passes to the registry
OpNames == {"AUTHORIZE", "DEEP_LINK_CHANNEL"}

\* the application calls a method of the registry of instance i
Calls(i, names) ==
  \E name \in names :
    \/ \E value \in Fns : AddHook(i, name, value) \/ RemoveHook(i, name, value)
    \/ RemoveAllHooks(i, name)
    \/ \E active \in Actives : ToggleHooks(i, name, active)

Hooks ==
  \E c \in 1..MaxConns, k \in 1..MaxFrames :
    \/ FanIn(c, k)
    \/ \E j \in 1..Cardinality(Fns), r \in Results \cup {Rejected} : HookSettle(c, k, j, r)

\* The WebSocket transport serving clients, every candidate port being free.
Init == InitWith([i \in Insts |-> {}])

Next ==
  \/ Listening("WebSocket") \/ Destroy("WebSocket") \/ StopServerThen("WebSocket")
  \/ Calls("WebSocket", {"AUTHORIZE"})
  \/ \E c \in 1..MaxConns :
       \/ \E origin \in Origins : WsConnection(c, origin)
       \/ \E pid \in Inputs : WsMessage(c, pid)
       \/ ConnClose(c)
  \/ Hooks

Spec == Init /\ [][Next]_vars

\* The IPC transport serving clients, every candidate path being free.
NextIpc ==
  \/ Listening("IPC") \/ Destroy("IPC") \/ StopServerThen("IPC")
  \/ Calls("IPC", {"AUTHORIZE"})
  \/ \E c \in 1..MaxConns :
       \/ IpcConnection(c)
       \/ \E pid \in Inputs : IpcData(c, pid)
       \/ IpcDrain(c)
       \/ ConnClose(c)
  \/ Hooks

SpecIpc == Init /\ [][NextIpc]_vars

\* the frames no hook list is found for: commands without a list, text that
\* is no JSON, binary frames, and candidates with a null for args or params
Unrecognized == {pid \in 1..Len(Payloads) :
                   Payloads[pid].bin \/ probe(Payloads[pid].val, 1).k # "match"}

\* The WebSocket transport and clients that send such frames only.
NextMalformed ==
  \/ Listening("WebSocket")
  \/ \E c \in 1..MaxConns :
       \/ \E origin \in Origins : WsConnection(c, origin)
       \/ \E pid \in Unrecognized : WsMessage(c, pid)
       \/ ConnClose(c)

SpecMalformed == Init /\ [][NextMalformed]_vars

\* The WebSocket transport with no hook registered and clients that send
\* frames of every kind but those with a null for args or params.
NextDispatch ==
  \/ Listening("WebSocket")
  \/ \E c \in 1..MaxConns :
       \/ \E origin \in Origins : WsConnection(c, origin)
       \/ \E pid \in NoNulls : WsMessage(c, pid)
       \/ ConnClose(c)

SpecDispatch == Init /\ [][NextDispatch]_vars

\* The WebSocket transport serving one origin, with registry calls and
\* destroy(); the frames are an AUTHORIZE message and an INVITE_BROWSER
\* message whose args is null.  Every hook that was called settles, and a
\* then-callback whose promise is settled runs.
SpecAnswer ==
  /\ Init
  /\ [][\/ Listening("WebSocket") \/ Destroy("WebSocket") \/ StopServerThen("WebSocket")
        \/ Calls("WebSocket", {"AUTHORIZE"})
        \/ \E c \in 1..MaxConns :
             \/ WsConnection(c, "https://allowed.example")
             \/ \E pid \in {1, 13} : WsMessage(c, pid)
             \/ ConnClose(c)
        \/ Hooks]_vars
  /\ \A c \in 1..MaxConns, k \in 1..MaxFrames :
       /\ WF_vars(FanIn(c, k))
       /\ WF_vars(\E j \in 1..Cardinality(Fns), r \in Results \cup {Rejected} :
                    HookSettle(c, k, j, r))

\* The WebSocket transport serving AUTHORIZE messages, with registry calls
\* and destroy().  The step of the then-callback is that of FanIn; applied
\* keeps the hooks of the frame and the array Promise.all resolved with.
SpecFanIn ==
  /\ Init
  /\ [][\/ Listening("WebSocket") \/ Destroy("WebSocket") \/ StopServerThen("WebSocket")
        \/ Calls("WebSocket", {"AUTHORIZE"})
        \/ \E c \in 1..MaxConns :
             \/ WsConnection(c, "https://allowed.example")
             \/ WsMessage(c, 1)
             \/ ConnClose(c)
        \/ \E c \in 1..MaxConns, k \in 1..MaxFrames :
             \/ \E j \in 1..Cardinality(Fns), r \in Results \cup {Rejected} :
                  HookSettle(c, k, j, r)
             \/ /\ FanInReady(c, k)
                /\ LET r == fanIn(conns[c].inst, conns[c], k)
                   IN  /\ conns' = [conns EXCEPT ![c] = r.conn]
                       /\ unhandled' = IF r.thrown
                                       THEN unhandled \cup {<<conns[c].inst, "fanIn">>}
                                       ELSE unhandled
                       /\ applied' = [Given([c |-> c, k |-> k,
                                             hooks |-> conns[c].frames[k].hooks,
                                             result |-> conns[c].frames[k].res])
                                        EXCEPT !.fn = "then"]
                /\ UNCHANGED <<call, snapshot, builtins, destroyed, own, hooks, console,
                               busy, port, servers, details, stopCalls, stopThen, ops>>]_vars

\* Transports derived from Protocol whose stopServer throws the first
\* failures[i] times it is called and returns afterwards, with registry
\* calls between the calls of destroy().  applied keeps the last call of
\* destroy(): the instance and the result.
MaxFailures == 2
SpecDestroy ==
  /\ \E failures \in [Insts -> 0..MaxFailures] :
       /\ Constructed([i \in Insts |-> {}], [i \in Insts |-> TRUE])
       /\ applied = Given([failures |-> failures])
  /\ [][\/ \E i \in Insts : Calls(i, {"AUTHORIZE"})
        \/ \E i \in Insts :
             LET r == destroyWith(i, applied.data.failures[i] > 0)
                 called == r.out # Throw("destroyError")
             IN  /\ hooks' = [hooks EXCEPT ![i] = r.hooks]
                 /\ own' = [own EXCEPT ![i] = r.own]
                 /\ console' = [console EXCEPT ![i] = r.console]
                 /\ destroyed' = [destroyed EXCEPT ![i] = r.destroyed]
                 /\ stopCalls' = [stopCalls EXCEPT ![i] = IF called THEN @ + 1 ELSE @]
                 /\ applied' = [applied EXCEPT
                                  !.fn = "destroy", !.cmd = i, !.resp = r.out,
                                  !.data.failures[i] = IF called /\ @ > 0 THEN @ - 1 ELSE @]
                 /\ UNCHANGED <<busy, port, servers, details, stopThen, conns, ops,
                                unhandled, builtins, snapshot, call>>]_vars

\* The WebSocket transport and clients of every origin.
NextOrigin ==
  \/ Listening("WebSocket")
  \/ \E c \in 1..MaxConns :
       \/ \E origin \in AllOrigins : WsConnection(c, origin)
       \/ \E pid \in {1, 4} : WsMessage(c, pid)
       \/ ConnClose(c)

SpecOrigin == Init /\ [][NextOrigin]_vars

\* Both transports serving clients, AUTHORIZE hooks being registered on the
\* WebSocket transport.
NextReady ==
  \/ \E i \in Insts : Listening(i)
  \/ Calls("WebSocket", {"AUTHORIZE"})
  \/ \E c \in 1..MaxConns :
       \/ \E origin \in Origins : WsConnection(c, origin)
       \/ \E pid \in {1, 4} : WsMessage(c, pid)
       \/ IpcConnection(c)
       \/ \E pid \in {1, 4} : IpcData(c, pid)
       \/ IpcDrain(c)
       \/ ConnClose(c)
  \/ Hooks

SpecReady == Init /\ [][NextReady]_vars

(***************************************************************************)
(* server.ts: the negotiation of a port                                    *)
(***************************************************************************)
\* candidates held by other processes: the first k of the range, for every
\* k, and sets with a free candidate before a busy one
WsBusy == {WsStart..(WsStart + k - 1) : k \in 0..(WsEnd - WsStart + 1)}
            \cup {{WsStart, WsStart + 2}, {WsStart + 1}, {WsEnd}}
\* the numbers ranges are drawn from
MinPort == 1
MaxPort == 4

\* getServer(start, end, getter) called with a range of either direction
ApplyGetServer(start, end, busyPorts) ==
  /\ applied.fn = "none"
  /\ applied' = [Given([start |-> start, end |-> end, busy |-> busyPorts,
                        tried |-> getServer(start, end, busyPorts).tried])
                  EXCEPT !.fn = "getServer", !.resp = getServer(start, end, busyPorts).out]
  /\ UNCHANGED <<call, snapshot, builtins, destroyed, own, hooks, console, busy, port, servers,
                 details, stopCalls, stopThen, conns, ops, unhandled>>

InitNegotiation ==
  \E b \in WsBusy : InitWith([i \in Insts |-> IF i = "WebSocket" THEN b ELSE {}])

NextNegotiation ==
  \/ Listening("WebSocket")
  \/ BindError("WebSocket")
  \/ \E start, end \in MinPort..MaxPort : \E busyPorts \in SUBSET (MinPort..MaxPort) :
       ApplyGetServer(start, end, busyPorts)

\* the event of a server that is binding is delivered
SpecNegotiation ==
  /\ InitNegotiation /\ [][NextNegotiation]_vars
  /\ WF_vars(Listening("WebSocket")) /\ WF_vars(BindError("WebSocket"))

(***************************************************************************)
(* packet.ts: the channels log, error and debug                            *)
(***************************************************************************)
\* the stream a call of log, error or debug of i writes to, "none" if it
\* writes nothing; nodeDebug is the set of sections NODE_DEBUG enables.
\* debug is util.debuglog("disconnection-" + safeName): it never reads #console
written(i, channel, nodeDebug) ==
  IF Poisoned(i, channel) THEN Throw("destroyError")
  ELSE IF channel = "log" THEN Ret(IF console[i] THEN "stdout" ELSE "none")
  ELSE IF channel = "error" THEN Ret(IF console[i] THEN "stderr" ELSE "none")
  ELSE IF ("disconnection-" \o sanitizedName(i)) \in nodeDebug THEN Ret("stderr")
  ELSE Ret("none")

\* i.log(...), i.error(...) or i.debug(...) is called
ApplyChannel(i, channel) ==
  /\ applied' = [applied EXCEPT !.fn = channel, !.cmd = i,
                                !.resp = written(i, channel, applied.data.nodeDebug)]
  /\ UNCHANGED <<call, snapshot, builtins, destroyed, own, hooks, console, busy, port, servers,
                 details, stopCalls, stopThen, conns, ops, unhandled>>

\* Instances constructed with and without a console, under every setting of
\* NODE_DEBUG, whose channels are used before and after destroy().
SpecLogging ==
  /\ \E sinks \in [Insts -> BOOLEAN] :
       \E nodeDebug \in SUBSET {"disconnection-_eb_ocket", "disconnection-___", "http"} :
         /\ Constructed([i \in Insts |-> {}], sinks)
         /\ applied = Given([sinks |-> sinks, nodeDebug |-> nodeDebug])
  /\ [][\E i \in Insts : \/ Destroy(i)
                          \/ \E channel \in {"log", "error", "debug"} : ApplyChannel(i, channel)]_vars

(***************************************************************************)
(* ipc.ts: frames on the wire.  A buffer is a sequence of bytes.           *)
(***************************************************************************)
\* toMsg(json, kind), chars being the bytes of JSON.stringify(json), all of
\* them ASCII: Buffer.from([...]) keeps the low byte of every number
toMsg(chars, kind) ==
  <<kind % 256, (kind \div 256) % 256, (kind \div 65536) % 256, (kind \div 16777216) % 256,
    Len(chars) % 256, (Len(chars) \div 256) % 256, (Len(chars) \div 65536) % 256,
    (Len(chars) \div 16777216) % 256>> \o chars

\* a parser that stops after the first frame
parsePacketOnce(packet) ==
  IF Len(packet) = 0 THEN Ret(<<>>)
  ELSE IF Len(packet) < 8 THEN Throw("RangeError")
  ELSE Ret(<<[kind |-> packet[1] + packet[2] * 256 + packet[3] * 65536 + packet[4] * 16777216,
              size |-> packet[5] + packet[6] * 256 + packet[7] * 65536 + packet[8] * 16777216,
              data |-> SubSeq(packet, 9, Len(packet))]>>)

\* parsePacket(packet): readUInt32LE throws a RangeError when fewer than four
\* bytes are left at its offset, subarray stops at the end of the buffer
RECURSIVE parsePacket(_)
parsePacket(packet) ==
  IF Len(packet) = 0 THEN Ret(<<>>)
  ELSE IF Len(packet) < 8 THEN Throw("RangeError")
  ELSE LET readUInt32LE(o) == packet[o + 1] + packet[o + 2] * 256 + packet[o + 3] * 65536
                                + packet[o + 4] * 16777216
           kind == readUInt32LE(0)
           size == readUInt32LE(4)
           upto == IF 8 + size > Len(packet) THEN Len(packet) ELSE 8 + size
           rest == parsePacket(SubSeq(packet, upto + 1, Len(packet)))
       IN  IF rest.k = "throw" THEN rest
           ELSE Ret(<<[kind |-> kind, size |-> size, data |-> SubSeq(packet, 9, upto)]>> \o rest.v)

\* frames per buffer, and bytes of payload per frame
MaxPerBuffer == 2
MaxPayload == 2

\* The buffer holds the frames of a client, one after another; the last
\* cut bytes have not arrived yet.
InitFrames ==
  /\ Constructed([i \in Insts |-> {}], [i \in Insts |-> TRUE])
  /\ \E k \in 0..MaxPerBuffer : \E cut \in 0..1 :
       \E frames \in [1..k -> [kind : {0, 1, 258, 16777217},
                               data : UNION {[1..n -> {0, 123}] : n \in 0..MaxPayload}]] :
         LET RECURSIVE concat(_)
             concat(n) == IF n = 0 THEN <<>>
                          ELSE concat(n - 1) \o toMsg(frames[n].data, frames[n].kind)
         IN  applied = Given([frames |-> frames, cut |-> cut,
                              packet |-> SubSeq(concat(k), 1, Len(concat(k)) - cut)])

\* parsePacket(Buffer.concat(pacCollect))
ApplyParsePacket ==
  /\ applied.fn = "none"
  /\ applied' = [applied EXCEPT !.fn = "parsePacket", !.resp = parsePacket(applied.data.packet)]
  /\ UNCHANGED <<call, snapshot, builtins, destroyed, own, hooks, console, busy, port, servers,
                 details, stopCalls, stopThen, conns, ops, unhandled>>

SpecFrames == InitFrames /\ [][ApplyParsePacket]_vars

(***************************************************************************)
(* packet.ts: isMessage and messageDefaultResponse applied to values       *)
(***************************************************************************)
\* the own properties of an object: a property that holds undefined reads
\* as one that is absent
Own(all) == [k \in {k \in DOMAIN all : all[k].t # "undefined"} |-> all[k]]

\* the values the functions are applied to.  Ctors: a plain object, an
\* array, an instance of a class, and an object with no prototype (its
\* constructor is undefined)
Candidates ==
  LET Ctors == {"Object", "Array", "Foo", "undefined"}
      CmdVals == {Undefined, Num(1), Str("GET_GUILDS")} \cup {Str(codes[j]) : j \in 1..Len(codes)}
      NonceVals == {Undefined, Num(7), Str("n")}
      ArgsVals ==
        {Undefined, Null, Str("args"), Arr, Plain(NoProps),
         Plain([code |-> Str("abc")]), Plain([code |-> Num(5)]),
         Plain([scopes |-> Arr, client_id |-> Str("123")]),
         Plain([scopes |-> Arr]), Plain([client_id |-> Str("123")]),
         Plain([pid |-> Num(1), activity |-> Plain(NoProps)]),
         Plain([pid |-> Num(1)]), Plain([activity |-> Plain(NoProps)])}
      ParamsVals ==
        {Undefined, Null, Str("params")} \cup
        {Plain(Own([guildId |-> g, channelId |-> c, search |-> q, fingerprint |-> f])) :
           g \in {Str("1"), Num(1), Undefined}, c \in {Str("2"), Num(2), Undefined},
           q \in {Str(""), Undefined}, f \in {Str("f"), Num(0)}}
      DeepLinkArgs ==
        {Plain(Own([type |-> t, params |-> ps])) :
           t \in {Str("CHANNEL"), Undefined}, ps \in ParamsVals}
  IN  {Undefined, Null, Str("hello"), Num(0), Bool(TRUE)} \cup
      {Obj(ctor, Own([cmd |-> cmd, nonce |-> nonce, args |-> args])) :
         ctor \in Ctors, cmd \in CmdVals, nonce \in NonceVals, args \in ArgsVals} \cup
      {Plain([cmd |-> Str("DEEP_LINK"), nonce |-> Str("n"), args |-> args]) :
         args \in DeepLinkArgs}

\* isMessage(data, cmd, argsType) is called
ApplyIsMessage(cmd, type) ==
  /\ applied' = [applied EXCEPT !.fn = "isMessage", !.cmd = cmd, !.type = type,
                                !.is = isMessage(applied.data, cmd, type),
                                !.resp = Ret(Undefined)]
  /\ UNCHANGED <<destroyed, own, hooks, console, busy, port, servers, details, stopCalls,
                 stopThen, conns, ops, unhandled, builtins, snapshot, call>>

\* messageDefaultResponse(message) is called with a value isMessage accepts
ApplyDefaultResponse ==
  /\ isMessage(applied.data, "", "") = "true"
  /\ applied' = [applied EXCEPT !.fn = "messageDefaultResponse", !.cmd = "", !.type = "",
                                !.is = "",
                                !.resp = IF defaultResponseThrows(applied.data)
                                         THEN Throw("TypeError")
                                         ELSE Ret(messageDefaultResponse(applied.data))]
  /\ UNCHANGED <<destroyed, own, hooks, console, busy, port, servers, details, stopCalls,
                 stopThen, conns, ops, unhandled, builtins, snapshot, call>>

InitPacket == Constructed([i \in Insts |-> {}], [i \in Insts |-> TRUE]) /\ \E v \in Candidates : applied = Given(v)

\* the arguments cmd and argsType of isMessage are "" when not given
NextPacket ==
  \/ \E cmd \in {""} \cup {codes[j] : j \in 1..Len(codes)} :
       \E type \in {""} \cup {types[j] : j \in 1..Len(types)} : ApplyIsMessage(cmd, type)
  \/ ApplyDefaultResponse

SpecPacket == InitPacket /\ [][NextPacket]_vars

\* Construction, negotiation and destroy() of both transports, with no client.
\* The events of the servers and the callbacks of resolved promises do happen.
InitLife == \E b \in [Insts -> UNION {BusyChoices(i) : i \in Insts}] :
              (\A i \in Insts : b[i] \in BusyChoices(i)) /\ InitWith(b)

NextLife ==
  \E i \in Insts :
    Listening(i) \/ BindError(i) \/ Destroy(i) \/ StopServerThen(i) \/ Calls(i, OpNames)

FairLife == \A i \in Insts : /\ WF_vars(Listening(i))
                             /\ WF_vars(BindError(i))
                             /\ WF_vars(StopServerThen(i))

SpecLife == InitLife /\ [][NextLife]_vars /\ FairLife

(***************************************************************************)
(* Properties of the destroy lifecycle                                     *)
(***************************************************************************)
(* The application working on the registry of the WebSocket transport: it  *)
(* makes any number of calls, with arguments of every kind, and may        *)
(* destroy the instance.                                                   *)
(***************************************************************************)
\* the names a caller passes: a hook name, a command that has no hook
\* list, and a member every object inherits from Object.prototype
RegNames == {"AUTHORIZE", "GET_GUILDS", "toString"}
\* the values a caller passes as a hook: functions, and null
NotCallable == "null"
Values == Fns \cup {NotCallable}
\* the values a caller passes as active: booleans, nothing, and a number
ActiveArgs == Actives \cup {Num(1)}

\* the array a variable of the application refers to, as it reads now
Items(s) ==
  IF ~s.live THEN s.items
  ELSE IF hooks[s.inst][s.name].k = "entry" THEN hooks[s.inst][s.name].list ELSE <<>>

\* a call with result r, remembered by the application
Recorded(i, op, name, value, active, r) ==
  /\ Effect(i, r)
  /\ call' = [op |-> op, inst |-> i, name |-> name, value |-> value, active |-> active,
              out |-> r.out, before |-> hooks[i], after |-> r.hooks]
  /\ UNCHANGED <<ops, applied>>

CallAddHook(i, name, value) ==
  /\ Recorded(i, "addHook", name, value, Undefined, addHook(i, name, value))
  /\ UNCHANGED snapshot
CallRemoveHook(i, name, value) ==
  /\ Recorded(i, "removeHook", name, value, Undefined, removeHook(i, name, value))
  /\ UNCHANGED snapshot
CallRemoveAllHooks(i, name) ==
  /\ Recorded(i, "removeAllHooks", name, "", Undefined, removeAllHooks(i, name))
  /\ UNCHANGED snapshot
CallToggleHooks(i, name, active) ==
  /\ Recorded(i, "toggleHooks", name, "", active, toggleHooks(i, name, active))
  /\ UNCHANGED snapshot
CallAnyHooksActive(i, name) ==
  /\ Recorded(i, "anyHooksActive", name, "", Undefined, Same(i, anyHooksActive(i, name)))
  /\ UNCHANGED snapshot

\* a variant of getHooks that hands out the list it keeps, not a copy
CallGetHooksLive(i, name) ==
  /\ Recorded(i, "getHooks", name, "", Undefined, Same(i, getHooks(i, name)))
  /\ snapshot' = IF getHooks(i, name).k = "return"
                 THEN [has |-> TRUE, inst |-> i, name |-> name, live |-> TRUE,
                       items |-> getHooks(i, name).v]
                 ELSE snapshot

\* getHooks(name): the caller keeps the array [...list] it got
CallGetHooks(i, name) ==
  /\ Recorded(i, "getHooks", name, "", Undefined, Same(i, getHooks(i, name)))
  /\ snapshot' = IF getHooks(i, name).k = "return"
                 THEN [has |-> TRUE, inst |-> i, name |-> name, live |-> FALSE,
                       items |-> getHooks(i, name).v]
                 ELSE snapshot

NextRegistry ==
  \/ Destroy("WebSocket")
  \/ \E name \in RegNames :
       \/ \E value \in Values : \/ CallAddHook("WebSocket", name, value)
                                \/ CallRemoveHook("WebSocket", name, value)
       \/ CallRemoveAllHooks("WebSocket", name)
       \/ \E active \in ActiveArgs : CallToggleHooks("WebSocket", name, active)
       \/ CallAnyHooksActive("WebSocket", name)
       \/ CallGetHooks("WebSocket", name)

SpecRegistry == Init /\ [][NextRegistry]_vars

\* The application calls the registry of one instance with two hook names
\* and a name that is inherited from Object.prototype, and destroy().
SpecRegistryNames ==
  /\ Init
  /\ [][\/ Destroy("WebSocket")
        \/ \E name \in OpNames \cup {"toString"} :
             \/ \E value \in Fns : \/ CallAddHook("WebSocket", name, value)
                                   \/ CallRemoveHook("WebSocket", name, value)
             \/ CallRemoveAllHooks("WebSocket", name)
             \/ \E active \in Actives : CallToggleHooks("WebSocket", name, active)
             \/ CallAnyHooksActive("WebSocket", name)
             \/ CallGetHooks("WebSocket", name)]_vars

(***************************************************************************)
DestroyedError(o) == o.k = "throw" /\ o.e = "destroyError"

\* every public method but isDestroyed fails with the destroyed error
MethodsFail(i) ==
  /\ \A name \in hookNameSet :
       /\ \A value \in Fns : /\ DestroyedError(addHook(i, name, value).out)
                             /\ DestroyedError(removeHook(i, name, value).out)
       /\ DestroyedError(removeAllHooks(i, name).out)
       /\ DestroyedError(getHooks(i, name))
       /\ DestroyedError(anyHooksActive(i, name))
       /\ \A active \in Actives : DestroyedError(toggleHooks(i, name, active).out)
  /\ DestroyedError(log(i))
  /\ DestroyedError(destroy(i))

\* C1: isDestroyed() returns false before the first destroy() and true in
\* every state after it; after it every call of addHook, removeHook,
\* removeAllHooks, getHooks, anyHooksActive, toggleHooks, log and destroy
\* fails with the destroyed error; the Destroyed state is never left.
C1_DestroyedIsInert ==
  /\ [](\A i \in Insts : /\ isDestroyed(i) = Ret(Bool(destroyed[i]))
                         /\ destroyed[i] => MethodsFail(i))
  /\ [][\A i \in Insts : destroyed[i] => destroyed'[i]]_vars

\* destroy() has completed on an instance after registry calls were made
C1_Witness ==
  \E i \in Insts : destroyed[i] /\ stopCalls[i] = 1 /\ own[i] = destroyMethods /\ ops > 0

\* C2: after destroy() reading the safeName accessor raises the destroyed
\* error instead of returning a value.
C2_AccessorsFail == \A i \in Insts : destroyed[i] => DestroyedError(safeName(i))

Released(i) == ~details[i].has /\ \A p \in Ports(i) : servers[i][p] # "listening"

\* C10: destroy() invokes stopServer exactly once; when the negotiation
\* resolves, before destroy() or after it, the listener is eventually closed
\* and the details reference released; when the negotiation fails no listener
\* is left and the details reference stays.
C10_StopServerOnResolve ==
  /\ [](\A i \in Insts : stopCalls[i] = IF destroyed[i] THEN 1 ELSE 0)
  /\ \A i \in Insts : (destroyed[i] /\ details[i].st = "resolved") ~> Released(i)
  /\ [](\A i \in Insts : details[i].st = "rejected" =>
          details[i].has /\ \A p \in Ports(i) : servers[i][p] # "listening")

\* destroy() was called while the negotiation was pending, the negotiation
\* resolved on a later candidate, and the then-callback of stopServer has run
C10_Witness ==
  \E i \in Insts : /\ destroyed[i] /\ stopCalls[i] = 1 /\ Released(i)
                   /\ details[i].st = "resolved" /\ port[i] # rangeStart(i)

\* C10 as stated: whenever destroy() is called, also while the negotiation is
\* pending, the listener is eventually closed and the details reference
\* released.
C10_AlwaysReleased == \A i \in Insts : destroyed[i] ~> Released(i)

(***************************************************************************)
(* Properties of the dispatch of frames                                    *)
(***************************************************************************)
Conns == 1..MaxConns
\* the frames a step hands to the handler, and the calls it makes on the client
NewFrames(c) == (Len(conns[c].frames) + 1)..Len(conns'[c].frames)
NewCalls(c) == (Len(conns[c].out) + 1)..Len(conns'[c].out)
\* the kind the catalog gives a frame
KindOf(fr) == probe(parsedData(fr.pid), 1)
Settled(r) == r.t \notin {"pending", "rejected"}

\* C3: when every hook of a frame has resolved, a result that is a number
\* greater than 0 closes the connection with such a number as status code and
\* no response is sent; otherwise exactly one default response is sent and
\* the connection is not closed; never both.
C3_CodeClosesElseResponse ==
  [][\A c \in Conns : \A k \in 1..Len(conns[c].frames) :
       (FanInReady(c, k) /\ conns'[c].frames[k].st # "fanin") =>
         LET fr == conns[c].frames[k]
             positive == {j \in 1..Len(fr.res) : IsCode(fr.res[j])}
             new == NewCalls(c)
         IN  /\ Cardinality(new) = 1
             /\ \A n \in new :
                  LET o == conns'[c].out[n]
                  IN  /\ o.f = k
                      /\ IF positive # {}
                         THEN /\ o.op = "close"
                              /\ o.v.t = "number"
                              /\ \E j \in positive : o.v.n = fr.res[j].n
                              /\ conns'[c].st = "closed"
                         ELSE /\ o.op = "send"
                              /\ o.v = messageDefaultResponse(parsedData(fr.pid))
                              /\ conns'[c].st = conns[c].st]_vars

C5_AllHooksThenDecision ==
  [][\A c \in Conns :
       /\ \A m \in NewFrames(c) :
            LET fr == conns'[c].frames[m]
                kind == KindOf(fr)
                e == hooks[conns[c].inst][kind.name]
            IN  (kind.k = "match" /\ e.k = "entry" /\ Len(e.list) > 0 /\ e.active) =>
                  /\ fr.hooks = e.list
                  /\ \A a, b \in 1..Len(fr.hooks) : a # b => fr.hooks[a] # fr.hooks[b]
                  /\ fr.res = [j \in 1..Len(e.list) |-> Pending]
                  /\ fr.arg = IF conns[c].inst = "WebSocket" THEN conns[c].origin ELSE "null"
                  /\ \A n \in NewCalls(c) : conns'[c].out[n].f # m
       /\ \A k \in 1..Len(conns[c].frames) :
            (conns[c].frames[k].st = "fanin" /\ \E n \in NewCalls(c) : conns'[c].out[n].f = k)
              => \A j \in 1..Len(conns[c].frames[k].res) : Settled(conns[c].frames[k].res[j])]_vars

\* a frame whose two hooks were both started, the second having settled first
C5_Witness ==
  \E c \in Conns : \E k \in 1..Len(conns[c].frames) :
    /\ conns[c].frames[k].st = "fanin"
    /\ Len(conns[c].frames[k].hooks) = 2
    /\ conns[c].frames[k].res[1] = Pending
    /\ Settled(conns[c].frames[k].res[2])

\* C6: on one connection the hooks of a frame are not started while an
\* earlier frame of that connection still waits for its hooks.
C6_OneFrameAtATime ==
  [][\A c \in Conns : \A m \in NewFrames(c) :
       conns'[c].frames[m].st = "fanin" =>
         \A k \in 1..(m - 1) : conns'[c].frames[k].st # "fanin"]_vars

\* C7: a frame one of whose hooks rejected still gets its default response,
\* and the rejection is handled.
C7_RejectionStillAnswered ==
  /\ \A i \in Insts : <<i, "hookRejected">> \notin unhandled
  /\ \A c \in Conns : \A k \in 1..Len(conns[c].frames) :
       conns[c].frames[k].st = "rejected" =>
         \E n \in 1..Len(conns[c].out) : conns[c].out[n].f = k /\ conns[c].out[n].op = "send"

\* C8: nothing is sent and no close is issued for a frame on a connection
\* that its peer closed while the hooks of the frame were pending.
C8_NothingOnClosedConnection ==
  \A c \in Conns : \A n \in 1..Len(conns[c].out) :
    (conns[c].out[n].f >= 1 /\ \A b \in 1..(n - 1) : conns[c].out[b].op # "close")
      => conns[c].out[n].open

\* C9: a frame is dispatched to the hooks the registry of its own instance
\* holds when the frame is processed, on whichever connection it arrives, and
\* a step never changes the registry of an instance no call was made on.
C9_OneRegistryPerInstance ==
  [][/\ \A c \in Conns : \A m \in NewFrames(c) :
          LET fr == conns'[c].frames[m]
              kind == KindOf(fr)
              e == hooks[conns[c].inst][kind.name]
          IN  (kind.k = "match" /\ e.k = "entry") =>
                fr.hooks = IF e.active THEN e.list ELSE <<>>
    /\ \A i, j \in Insts : i # j => hooks'[i] = hooks[i] \/ hooks'[j] = hooks[j]]_vars

\* on a connection accepted while no hook was registered, a frame was answered
\* at once and the next frame went to a hook added in between; another
\* connection of the same instance is open, and the other instance's registry
\* is as constructed
C9_Witness ==
  \E c, d \in Conns :
    /\ c # d /\ conns[d].st = "open" /\ conns[d].inst = conns[c].inst
    /\ Len(conns[c].frames) = 2
    /\ conns[c].frames[1].st = "sentNow" /\ conns[c].frames[1].name = "AUTHORIZE"
    /\ conns[c].frames[2].st = "fanin" /\ conns[c].frames[2].name = "AUTHORIZE"
    /\ conns[c].frames[2].hooks # <<>>
    /\ \E j \in Insts : j # conns[c].inst /\ hooks[j] = initialHooks

(***************************************************************************)
(* The registry of hooks, as the application sees it                       *)
(***************************************************************************)
\* the last call was op, on a hook name of an instance that was not destroyed
Made(op) ==
  /\ call.op = op
  /\ call.name \in hookNameSet
  /\ call.before[call.name].k = "entry"
ListBefore == call.before[call.name].list
ListAfter == call.after[call.name].list
\* the lists of the other names and the flags of all names are as before
OthersKept ==
  /\ \A n \in hookNameSet \ {call.name} : call.after[n] = call.before[n]
  /\ call.after[call.name].active = call.before[call.name].active
\* the call wrote nothing to the registry
NothingWritten == call.after = call.before

\* C11: addHook with a function that is already in the list of the name
\* returns false and leaves the list as it was: same members, same order,
\* same length.
C11_AddHookIdempotent ==
  Made("addHook") /\ call.value \in Fns /\ Has(ListBefore, call.value)
    => /\ call.out = Ret(Bool(FALSE))
       /\ ListAfter = ListBefore
       /\ NothingWritten
C11_Witness ==
  /\ Made("addHook") /\ call.value \in Fns /\ Has(ListBefore, call.value)
  /\ Len(ListBefore) = 2
  /\ call.out = Ret(Bool(FALSE))

\* every list holds a function once
NoDuplicates(list) == \A a, b \in 1..Len(list) : list[a] = list[b] => a = b

\* C12: addHook with a function that is not in the list appends it and
\* returns the new number of hooks; the list never holds a function twice,
\* so N distinct additions to an empty list give a list of length N.
C12_AddHookAppends ==
  /\ Made("addHook") /\ call.value \in Fns /\ ~Has(ListBefore, call.value)
       => /\ ListAfter = Append(ListBefore, call.value)
          /\ call.out = Ret(Num(Len(ListBefore) + 1))
          /\ call.out.v.n = Len(ListAfter)
          /\ OthersKept
  /\ \A i \in Insts, n \in hookNameSet :
       hooks[i][n].k = "entry" => NoDuplicates(hooks[i][n].list)
C12_Witness ==
  /\ Made("addHook") /\ call.value \in Fns /\ ~Has(ListBefore, call.value)
  /\ call.out = Ret(Num(Cardinality(Fns)))
  /\ Len(ListAfter) = Cardinality(Fns)

\* C13: on an instance that is not destroyed anyHooksActive(name) is false
\* when the list of the name is empty, whatever the flag is, and is the flag
\* when the list is not empty.
C13_ActiveNeedsHooks ==
  Made("anyHooksActive")
    => /\ call.out = Ret(Bool(Len(ListBefore) > 0 /\ call.before[call.name].active))
       /\ Len(ListBefore) = 0 => call.out = Ret(Bool(FALSE))
       /\ NothingWritten
C13_Witness ==
  /\ Made("anyHooksActive")
  /\ Len(ListBefore) = 0 /\ call.before[call.name].active
  /\ call.out = Ret(Bool(FALSE))

\* C14: toggleHooks(name, b) sets the flag of the name to b and
\* toggleHooks(name) negates it; the call returns what anyHooksActive(name)
\* gives after the change, which is false for an empty list even when the
\* flag was set to true.
C14_ToggleSetsFlag ==
  Made("toggleHooks") /\ call.active.t \in {"boolean", "undefined"}
    => /\ call.after[call.name].active =
            (IF call.active.t = "boolean" THEN call.active.b
             ELSE ~call.before[call.name].active)
       /\ call.out = Ret(Bool(Len(ListAfter) > 0 /\ call.after[call.name].active))
       /\ ListAfter = ListBefore
       /\ \A n \in hookNameSet \ {call.name} : call.after[n] = call.before[n]
C14_Witness ==
  /\ Made("toggleHooks") /\ call.active = Bool(TRUE)
  /\ ~call.before[call.name].active /\ call.after[call.name].active
  /\ Len(ListAfter) = 0
  /\ call.out = Ret(Bool(FALSE))

\* C15: removeHook returns true exactly when the function was in the list;
\* afterwards the function is not in the list and the other hooks are all
\* there, in the order they had.
C15_RemoveHookKeepsOrder ==
  Made("removeHook") /\ call.value \in Fns
    => /\ call.out = Ret(Bool(Has(ListBefore, call.value)))
       /\ ~Has(ListAfter, call.value)
       /\ ListAfter = SelectSeq(ListBefore, LAMBDA f : f # call.value)
       /\ OthersKept
C15_Witness ==
  /\ Made("removeHook") /\ call.value \in Fns
  /\ Len(ListBefore) = 2 /\ ListBefore[1] = call.value
  /\ call.out = Ret(Bool(TRUE))
  /\ ListAfter = <<ListBefore[2]>>

\* C16: removeAllHooks leaves the list of the name empty and returns true
\* exactly when the list held a hook before the call.
C16_RemoveAllEmpties ==
  Made("removeAllHooks")
    => /\ ListAfter = <<>>
       /\ call.out = Ret(Bool(Len(ListBefore) > 0))
       /\ OthersKept
C16_Witness ==
  /\ Made("removeAllHooks")
  /\ Len(ListBefore) = 2 /\ ListAfter = <<>>
  /\ call.out = Ret(Bool(TRUE))

\* the hooks of list that are still in next have kept their order and stand
\* in front of the hooks that came in
InsertionOrder(list, next) ==
  LET kept == SelectSeq(list, LAMBDA f : Has(next, f))
  IN  /\ Len(kept) <= Len(next)
      /\ SubSeq(next, 1, Len(kept)) = kept
      /\ \A j \in (Len(kept) + 1)..Len(next) : ~Has(list, next[j])

\* C17: getHooks returns the hooks of the name in the order they were first
\* inserted: in every step the hooks that stay keep their order and a hook
\* that comes in, also one that was removed before, is the last.  The array
\* is a snapshot: it reads the same after every later call.
C17_GetHooksSnapshotInOrder ==
  /\ [](Made("getHooks") => call.out = Ret(ListBefore) /\ NothingWritten)
  /\ [][/\ \A i \in Insts, n \in hookNameSet :
             hooks[i][n].k = "entry" /\ hooks'[i][n].k = "entry"
               => InsertionOrder(hooks[i][n].list, hooks'[i][n].list)
        /\ snapshot.has /\ snapshot' = snapshot => Items(snapshot)' = Items(snapshot)]_vars
C17_Witness ==
  /\ snapshot.has /\ Len(snapshot.items) = 2
  /\ Made("addHook") /\ call.name = snapshot.name
  /\ call.value = snapshot.items[1] /\ ~Has(ListBefore, call.value)
  /\ ListAfter = <<snapshot.items[2], snapshot.items[1]>>
  /\ Items(snapshot) = snapshot.items

\* the last call was made on an instance that was not destroyed, with an
\* argument the method does not take
InvalidInput ==
  /\ call.op # "none"
  /\ \A n \in hookNameSet : call.before[n].k = "entry"
  /\ \/ call.name \notin hookNameSet
     \/ call.op \in {"addHook", "removeHook"} /\ call.value \notin Fns
     \/ call.op = "toggleHooks" /\ call.active.t \notin {"boolean", "undefined"}

\* C18: a call of a registry method with an invalid input (a name that is no
\* hook name, a hook that is not callable, an active that is not a boolean)
\* throws a TypeError in the call itself and leaves every list of hooks and
\* every active flag as it was.
C18_InvalidInputThrows ==
  InvalidInput => call.out = Throw("TypeError") /\ NothingWritten
C18_Witness ==
  /\ InvalidInput
  /\ call.op = "toggleHooks" /\ call.name \in hookNameSet /\ call.active = Num(1)
  /\ ~call.before[call.name].active /\ Len(ListBefore) = 2
  /\ call.out = Throw("TypeError")

\* the hook names of the catalog
CatalogNames == {"INVITE_BROWSER", "GUILD_TEMPLATE_BROWSER", "AUTHORIZE",
                 "DEEP_LINK_CHANNEL", "SET_ACTIVITY"}
\* every registry method returns for the name n, whatever valid argument it gets
AllReturn(i, n) ==
  /\ \A f \in Fns : /\ addHook(i, n, f).out.k = "return"
                    /\ removeHook(i, n, f).out.k = "return"
  /\ removeAllHooks(i, n).out.k = "return"
  /\ getHooks(i, n).k = "return"
  /\ anyHooksActive(i, n).k = "return"
  /\ \A a \in Actives : toggleHooks(i, n, a).out.k = "return"

\* C19: an instance that was constructed and not used yet, no connection
\* being there, has an entry for each of the five hook names, with an empty
\* list and the flag set; while an instance is not destroyed each name has
\* its entry and no registry method throws for a hook name.
C19_EntriesFromConstruction ==
  \A i \in Insts :
    /\ hookNameSet = CatalogNames
    /\ ~destroyed[i] /\ (call.op = "none" \/ call.inst # i) /\ (\A c \in Conns : conns[c] = NoConn)
         => /\ DOMAIN hooks[i] = CatalogNames
            /\ \A n \in CatalogNames : hooks[i][n] = Entry(<<>>, TRUE)
    /\ ~destroyed[i]
         => /\ DOMAIN hooks[i] = CatalogNames
            /\ \A n \in CatalogNames : hooks[i][n].k = "entry" /\ AllReturn(i, n)
            /\ call.op # "none" /\ call.inst = i /\ call.name \in CatalogNames /\ ~InvalidInput
                 => call.out.k = "return"
C19_Witness ==
  /\ ~destroyed["WebSocket"]
  /\ Made("removeAllHooks") /\ call.inst = "WebSocket" /\ call.out = Ret(Bool(TRUE))
  /\ \A n \in CatalogNames \ {call.name} : hooks["WebSocket"][n] = Entry(<<>>, TRUE)
  /\ hooks["IPC"] = [n \in CatalogNames |-> Entry(<<>>, TRUE)]

(***************************************************************************)
(* Frames the engine has no hook list for                                  *)
(***************************************************************************)
\* C20: a frame that is malformed or not recognized, a candidate whose args
\* or args.params is null included, never throws out of the frame handler:
\* its connection is closed with a status code and no failure is left
\* unhandled, so the server and the other connections keep running.
C20_MalformedOnlyCloses ==
  /\ \A i \in Insts : <<i, "handler">> \notin unhandled
  /\ \A c \in Conns : \A k \in 1..Len(conns[c].frames) :
       conns[c].frames[k].pid \in Unrecognized
         => /\ conns[c].frames[k].st = "unmatched"
            /\ \E n \in 1..Len(conns[c].out) :
                 /\ conns[c].out[n].op = "close" /\ conns[c].out[n].f = k
                 /\ conns[c].out[n].v.t = "number"
            /\ conns[c].st = "closed"

\* a value with a string cmd, a string nonce and an object for args
MessageLike(v) ==
  /\ v.t = "object" /\ ~v.null /\ v.ctor = "Object"
  /\ Get(v, "cmd").t = "string" /\ Get(v, "nonce").t = "string"
  /\ Get(v, "args").t = "object" /\ ~Get(v, "args").null
\* the close calls made for frame k of connection c
ClosesOf(c, k) ==
  {n \in 1..Len(conns[c].out) : conns[c].out[n].op = "close" /\ conns[c].out[n].f = k}

\* C21: a frame that matches no kind closes its connection and no hook is
\* called for it: a binary frame with the unsupported-data code, whatever
\* its bytes spell; a text frame that is like a message with the
\* invalid-payload code and a reason that names the request type as not
\* supported; any other text frame with the invalid-payload code and a reason
\* that names the text as not handled.
C21_UnmatchedCloses ==
  \A c \in Conns : \A k \in 1..Len(conns[c].frames) :
    LET fr == conns[c].frames[k]
        p == Payloads[fr.pid]
    IN  fr.pid \in Unrecognized
          => /\ fr.st = "unmatched" /\ fr.hooks = <<>> /\ fr.name = ""
             /\ Cardinality(ClosesOf(c, k)) = 1
             /\ \A n \in ClosesOf(c, k) :
                  LET o == conns[c].out[n]
                  IN  IF p.bin THEN o.v = Num(UnsupportedData)
                      ELSE IF MessageLike(p.val)
                      THEN /\ o.v = Num(InvalidPayload)
                           /\ o.reason \in
                                {"Request of type: '" \o Get(p.val, "cmd").s \o rest
                                   \o "' is currently not supported." :
                                 rest \in {"", "_CHANNEL"}}
                      ELSE /\ o.v = Num(InvalidPayload)
                           /\ p.val.t = "string" =>
                                o.reason = "Could not handle the packed text data: '"
                                             \o p.val.s \o "'."

\* the hook name a candidate is to be dispatched to, "" for none: the code
\* of the catalog its cmd is, DEEP_LINK standing for DEEP_LINK_CHANNEL when
\* args.type is CHANNEL and for nothing otherwise
KindByCatalog(p) ==
  IF p.bin \/ ~MessageLike(p.val) THEN ""
  ELSE LET cmd == Get(p.val, "cmd").s
       IN  IF cmd = "DEEP_LINK"
           THEN IF IsStr(Get(Get(p.val, "args"), "type"), "CHANNEL") THEN "DEEP_LINK_CHANNEL"
                ELSE ""
           ELSE IF \E j \in 1..Len(codes) : codes[j] = cmd THEN cmd ELSE ""

\* C22: a frame is dispatched to one hook name at most, that of the first
\* code of the catalog it matches: a DEEP_LINK message to DEEP_LINK_CHANNEL
\* when its args.type is CHANNEL, and to no hook name, as an unmatched frame,
\* when its type is another one or is missing.
C22_DispatchByKind ==
  \A c \in Conns : \A k \in 1..Len(conns[c].frames) :
    LET fr == conns[c].frames[k]
    IN  /\ fr.name = KindByCatalog(Payloads[fr.pid])
        /\ fr.name = "" => fr.st = "unmatched"

(***************************************************************************)
(* The validator and the default response                                  *)
(***************************************************************************)
\* isMessage was applied with the arguments cmd and type
Asked(cmd, type) == applied.fn = "isMessage" /\ applied.cmd = cmd /\ applied.type = type
\* o is an object that is not null
IsObject(o) == o.t = "object" /\ ~o.null
\* the field k of the args of a message-like value
Arg(v, k) == Get(Get(v, "args"), k)

\* C23: for a value with cmd DEEP_LINK, a string nonce and an object for
\* args.params, isMessage(value, "DEEP_LINK", "CHANNEL") is true exactly when
\* guildId, search and fingerprint of params are strings and channelId is
\* absent or a string.
C23_ChannelParams ==
  LET v == applied.data
      ps == Arg(v, "params")
  IN  Asked("DEEP_LINK", "CHANNEL") /\ MessageLike(v) /\ IsStr(Get(v, "cmd"), "DEEP_LINK")
        /\ IsObject(ps)
        => (applied.is = "true") =
             (/\ Get(ps, "guildId").t = "string"
              /\ Get(ps, "search").t = "string"
              /\ Get(ps, "fingerprint").t = "string"
              /\ Get(ps, "channelId").t \in {"undefined", "string"})

\* the value has the shape of the kind of code: the fields of a packet, the
\* cmd, and the fields of args the kind requires
RequiredArgs(code) ==
  IF code = "AUTHORIZE" THEN {"scopes", "client_id"}
  ELSE IF code = "SET_ACTIVITY" THEN {"pid", "activity"}
  ELSE IF code = "DEEP_LINK" THEN {"type", "params"}
  ELSE {}
LacksField(v, code) ==
  \/ ~MessageLike(v)
  \/ \E k \in RequiredArgs(code) : Arg(v, k).t = "undefined"
ValidShape(v, code) ==
  /\ MessageLike(v) /\ IsStr(Get(v, "cmd"), code)
  /\ code = "AUTHORIZE" => Arg(v, "scopes") = Arr /\ Arg(v, "client_id").t = "string"
  /\ code = "SET_ACTIVITY" => Arg(v, "pid").t = "number" /\ IsObject(Arg(v, "activity"))
  /\ code = "DEEP_LINK" =>
       /\ IsStr(Arg(v, "type"), "CHANNEL")
       /\ IsObject(Arg(v, "params"))
       /\ \A k \in {"guildId", "search", "fingerprint"} : Get(Arg(v, "params"), k).t = "string"
       /\ Get(Arg(v, "params"), "channelId").t \in {"undefined", "string"}
  /\ code \in {"INVITE_BROWSER", "GUILD_TEMPLATE_BROWSER"} => Arg(v, "code").t = "string"

\* C24: for every kind, isMessage(value, kind) is true for every value of
\* the valid shape of the kind and false for every value that lacks a field
\* the kind requires: a string cmd, a string nonce, an object args, and the
\* fields of args of the kind.
C24_ShapeOfKind ==
  \A j \in 1..Len(codes) :
    LET type == IF codes[j] = "DEEP_LINK" THEN "CHANNEL" ELSE ""
    IN  Asked(codes[j], type)
          => /\ ValidShape(applied.data, codes[j]) => applied.is = "true"
             /\ (IsObject(applied.data) /\ applied.data.ctor = "Object"
                   /\ LacksField(applied.data, codes[j])) => applied.is = "false"

\* C25: isMessage is false for every value that is not a plain object (null,
\* a primitive, an array, an instance of a class, an object without
\* prototype), whatever its fields hold and whatever cmd and argsType are.
C25_OnlyPlainObjects ==
  applied.fn = "isMessage"
    /\ (applied.data.t # "object" \/ applied.data.null \/ applied.data.ctor # "Object")
    => applied.is = "false"
C25_Witness ==
  /\ Asked("AUTHORIZE", "")
  /\ IsObject(applied.data) /\ applied.data.ctor = "undefined"
  /\ applied.data.p = [cmd |-> Str("AUTHORIZE"), nonce |-> Str("n"),
                       args |-> Plain([scopes |-> Arr, client_id |-> Str("123")])]
  /\ applied.is = "false"

\* C26: messageDefaultResponse(m) has the cmd and the nonce of m; for a cmd
\* that ends in _BROWSER its data is {code: m.args.code or null}, with
\* guildTemplate: {code: the same} for GUILD_TEMPLATE_BROWSER, and it has no
\* evt; for any other cmd its data is null and its evt is null.
C26_DefaultResponse ==
  applied.fn = "messageDefaultResponse"
    => LET m == applied.data
           cmd == Get(m, "cmd").s
           code == IF Arg(m, "code").t = "string" THEN Arg(m, "code").s
                   ELSE IF IsNullish(Arg(m, "code")) THEN "null" ELSE "other"
       IN  /\ applied.resp.k = "return"
           /\ applied.resp.v.cmd = cmd
           /\ applied.resp.v.nonce = Get(m, "nonce").s
           /\ applied.resp.v =
                (IF cmd = "GUILD_TEMPLATE_BROWSER"
                 THEN [cmd |-> cmd, data |-> [code |-> code, guildTemplate |-> [code |-> code]],
                       nonce |-> Get(m, "nonce").s]
                 ELSE IF cmd = "INVITE_BROWSER"
                 THEN [cmd |-> cmd, data |-> [code |-> code], nonce |-> Get(m, "nonce").s]
                 ELSE [cmd |-> cmd, data |-> "null", evt |-> "null",
                       nonce |-> Get(m, "nonce").s])

(***************************************************************************)
(* Origins                                                                 *)
(***************************************************************************)
\* the origin matches an entry of the list, a string exactly or a pattern
Matches(list, origin) == \E rule \in list : passingRule(rule, origin)
\* the connections made to the WebSocket transport
WsConns == {c \in 1..MaxConns : conns[c].inst = "WebSocket" /\ conns[c].st # "none"}

\* C27: a WebSocket connection is accepted only if its origin matches an
\* entry of the allow-list and no entry of the deny-list, so a deny-listed
\* origin is rejected even when it is allow-listed; a rejected connection is
\* closed with the policy-violation code, is never sent the ready event, and
\* none of its frames reaches a hook.
C27_OriginPolicy ==
  \A c \in WsConns :
    IF Matches(validOrigins, conns[c].origin) /\ ~Matches(unsupportedOrigins, conns[c].origin)
    THEN conns[c].out # <<>> /\ conns[c].out[1].op = "send" /\ conns[c].out[1].v = ready
    ELSE /\ Len(conns[c].out) = 1
         /\ conns[c].out[1].op = "close" /\ conns[c].out[1].v = Num(PolicyViolation)
         /\ conns[c].st = "closed"
         /\ conns[c].frames = <<>>
C27_Witness ==
  \E c, d \in WsConns :
    /\ conns[c].origin = "https://app.discord.com"
    /\ Matches(validOrigins, conns[c].origin)
    /\ conns[c].out[1].op = "close"
    /\ conns[d].origin = "https://canary.discord.com"
    /\ conns[d].frames # <<>>

(***************************************************************************)
(* The ready event                                                         *)
(***************************************************************************)
\* the connections the transports accepted
Accepted ==
  {c \in 1..MaxConns :
     /\ conns[c].st # "none"
     /\ conns[c].inst = "WebSocket" =>
          Matches(validOrigins, conns[c].origin) /\ ~Matches(unsupportedOrigins, conns[c].origin)}
\* the places in the calls made on the client of c where the ready event is sent
ReadySent(c) ==
  {n \in 1..Len(conns[c].out) :
     /\ conns[c].out[n].op = "send"
     /\ conns[c].out[n].v = [cmd |-> "DISPATCH",
                             data |-> [v |-> 1, config |-> "null", user |-> "null"],
                             evt |-> "READY", nonce |-> "null"]}

\* C28: on every accepted connection the ready event {cmd: DISPATCH,
\* data: {v: 1, config: null, user: null}, evt: READY, nonce: null} is sent
\* exactly once, as the first frame, before any frame of the client is
\* processed or answered.
C28_ReadyFirstOnce ==
  /\ [](\A c \in Accepted : ReadySent(c) = {1} /\ conns[c].out[1].f = 0)
  /\ [][\A c \in 1..MaxConns :
          NewFrames(c) # {} \/ (conns[c].st # "none" /\ NewCalls(c) # {})
            => c \in Accepted /\ ReadySent(c) = {1}]_vars
C28_Witness ==
  \E c, d \in Accepted :
    /\ conns[c].inst = "WebSocket" /\ conns[d].inst = "IPC"
    /\ \A e \in {c, d} :
         /\ ReadySent(e) = {1}
         /\ \E n \in 2..Len(conns[e].out) : conns[e].out[n].op = "send" /\ conns[e].out[n].f = 1

(***************************************************************************)
(* The negotiation of a port                                               *)
(***************************************************************************)
\* the n-th candidate of the range from start to end
Candidate(start, end, n) == IF start <= end THEN start + n - 1 ELSE start - n + 1
\* the number of candidates of the range
RangeSize(start, end) == IF start <= end THEN end - start + 1 ELSE start - end + 1
\* the candidates of the WebSocket transport that were attempted
Attempted == {p \in Ports("WebSocket") : servers["WebSocket"][p] # "none"}
\* the candidates of the WebSocket transport before p
Before(p) == {q \in Ports("WebSocket") : q < p}

\* C29: getServer(start, end, getter) attempts the candidates start,
\* start+1, ... (start-1, ... when start > end) one after another, each only
\* after the one before failed to bind, and resolves with the first that
\* binds; no candidate after it is attempted.  With 6463 to 6465 busy in
\* the range 6463 to 6472 it resolves with 6466.
C29_FirstFreeInOrder ==
  /\ [](applied.fn = "getServer"
          => LET d == applied.data
                 last == Len(d.tried)
             IN  /\ \A n \in 1..last : d.tried[n] = Candidate(d.start, d.end, n)
                 /\ \A n \in 1..(last - 1) : d.tried[n] \in d.busy
                 /\ applied.resp.k = "return"
                      => /\ last >= 1 /\ d.tried[last] \notin d.busy
                         /\ applied.resp.v = Num(d.tried[last])
                 /\ (\E n \in 1..RangeSize(d.start, d.end) :
                        Candidate(d.start, d.end, n) \notin d.busy)
                      => applied.resp.k = "return")
  /\ [](/\ Cardinality({p \in Attempted : servers["WebSocket"][p] = "binding"}) <= 1
        /\ \A p \in Attempted : \A q \in Before(p) :
             servers["WebSocket"][q] = "closed" /\ q \in busy["WebSocket"]
        /\ details["WebSocket"].st = "resolved"
             => /\ port["WebSocket"] \notin busy["WebSocket"]
                /\ Attempted = Before(port["WebSocket"]) \cup {port["WebSocket"]}
                /\ servers["WebSocket"][port["WebSocket"]] = "listening")
  /\ [](busy["WebSocket"] = WsStart..(WsStart + 2) /\ details["WebSocket"].st = "resolved"
          => port["WebSocket"] = WsStart + 3 /\ Attempted = WsStart..(WsStart + 3))
C29_Witness ==
  /\ busy["WebSocket"] = 6463..6465
  /\ details["WebSocket"].st = "resolved" /\ port["WebSocket"] = 6466
  /\ applied.fn = "getServer"
  /\ applied.data.start = 4 /\ applied.data.end = 1 /\ applied.data.busy = {3, 4}
  /\ applied.data.tried = <<4, 3, 2>> /\ applied.resp = Ret(Num(2))

\* C30: when every candidate is busy the negotiation ends: the promise of
\* the details rejects with the error that all ports are busy, after every
\* candidate was attempted exactly once, |end - start| + 1 attempts in all,
\* and no port outside the range is attempted.
C30_AllBusyRejects ==
  /\ [](applied.fn = "getServer"
          => LET d == applied.data
                 range == {Candidate(d.start, d.end, n) : n \in 1..RangeSize(d.start, d.end)}
             IN  /\ \A n \in 1..Len(d.tried) : d.tried[n] \in range
                 /\ range \subseteq d.busy
                      => /\ applied.resp = Throw("All ports from given range are busy!")
                         /\ Len(d.tried) = RangeSize(d.start, d.end)
                         /\ \A p \in range :
                              Cardinality({n \in 1..Len(d.tried) : d.tried[n] = p}) = 1)
  /\ [](details["WebSocket"].st = "rejected"
          => /\ busy["WebSocket"] = Ports("WebSocket")
             /\ \A p \in Ports("WebSocket") : servers["WebSocket"][p] = "closed")
  /\ [][\A p \in Ports("WebSocket") :
          servers'["WebSocket"][p] = "binding" /\ servers["WebSocket"][p] # "binding"
            => servers["WebSocket"][p] = "none"]_vars
  /\ (busy["WebSocket"] = Ports("WebSocket")) ~> (details["WebSocket"].st = "rejected")
C30_Witness ==
  /\ busy["WebSocket"] = Ports("WebSocket")
  /\ details["WebSocket"].st = "rejected"
  /\ Cardinality(Attempted) = WsEnd - WsStart + 1
  /\ applied.fn = "getServer"
  /\ applied.data.start = 3 /\ applied.data.end = 1 /\ applied.data.busy = {1, 2, 3}
  /\ applied.data.tried = <<3, 2, 1>> /\ applied.resp.k = "throw"

(***************************************************************************)
(* Frames on the wire                                                      *)
(***************************************************************************)
\* C31: parsePacket applied to the concatenation of k >= 0 well-formed
\* frames [kind, 4 bytes little-endian][length, 4 bytes little-endian]
\* [length bytes of payload] returns exactly those k frames in order, each
\* with its kind, its length and its payload: 8 + length bytes are consumed
\* per frame until the buffer is exhausted.
C31_ParsePacketFrames ==
  applied.fn = "parsePacket" /\ applied.data.cut = 0
    => /\ applied.resp.k = "return"
       /\ Len(applied.resp.v) = Len(applied.data.frames)
       /\ \A n \in 1..Len(applied.data.frames) :
            applied.resp.v[n] = [kind |-> applied.data.frames[n].kind,
                                 size |-> Len(applied.data.frames[n].data),
                                 data |-> applied.data.frames[n].data]
C31_Witness ==
  /\ applied.fn = "parsePacket" /\ applied.data.cut = 0
  /\ Len(applied.data.frames) = 2
  /\ applied.data.packet = <<2, 1, 0, 0, 2, 0, 0, 0, 123, 0, 1, 0, 0, 1, 0, 0, 0, 0>>
  /\ applied.resp = Ret(<<[kind |-> 258, size |-> 2, data |-> <<123, 0>>],
                          [kind |-> 16777217, size |-> 0, data |-> <<>>]>>)

(***************************************************************************)
(* Logging                                                                 *)
(***************************************************************************)
\* C32: when the instance was constructed without a sink, log, error and
\* debug write nothing, whatever NODE_DEBUG enables.
C32_NoSinkNoOutput ==
  applied.fn \in {"log", "error", "debug"} /\ ~applied.data.sinks[applied.cmd]
    /\ applied.resp.k = "return"
    => applied.resp.v = "none"

(***************************************************************************)
(* Frames and the registry, the connection and destroy()                   *)
(***************************************************************************)
\* the calls a step makes on the client of c for frame k
CallsFor(c, k) == {n \in NewCalls(c) : conns'[c].out[n].f = k}

\* C33: the hooks invoked for a frame are the hooks registered for its kind
\* when the frame is classified; addHook, removeHook, removeAllHooks and
\* toggleHooks made while the frame waits for its hooks add no invocation,
\* cancel none, and do not change that its results alone decide between
\* the close and the default response.
C33_FanInKeepsItsHooks ==
  [][\A c \in Conns :
       /\ \A m \in NewFrames(c) :
            conns'[c].frames[m].st = "fanin" =>
              /\ hooks[conns[c].inst][conns'[c].frames[m].name].k = "entry"
              /\ conns'[c].frames[m].hooks = hooks[conns[c].inst][conns'[c].frames[m].name].list
       /\ \A k \in 1..Len(conns[c].frames) :
            LET old == conns[c].frames[k]
                new == conns'[c].frames[k]
                positive == {j \in 1..Len(old.res) : IsCode(old.res[j])}
            IN  old.st = "fanin" =>
                  \/ /\ new.st = "fanin" /\ new.hooks = old.hooks
                     /\ Len(new.res) = Len(old.hooks)
                     /\ \A j \in 1..Len(old.res) : Settled(old.res[j]) => new.res[j] = old.res[j]
                     /\ CallsFor(c, k) = {}
                  \/ new.st = "rejected" /\ CallsFor(c, k) = {}
                  \/ /\ \A j \in 1..Len(old.res) : Settled(old.res[j])
                     /\ \A n \in CallsFor(c, k) :
                          conns'[c].out[n].op = IF positive # {} THEN "close" ELSE "send"
                     /\ positive = {} => Cardinality(CallsFor(c, k)) = 1]_vars
\* a frame waits for the hook f1 it was classified with, whose result is
\* in, while the list of its name was emptied
C33_Witness ==
  \E c \in Conns : \E k \in 1..Len(conns[c].frames) :
    /\ conns[c].frames[k].st = "fanin"
    /\ conns[c].frames[k].hooks = <<"f1">>
    /\ conns[c].frames[k].res = <<Num(4003)>>
    /\ hooks[conns[c].inst][conns[c].frames[k].name] = Entry(<<>>, TRUE)

\* C34: once the engine has closed a connection it sends no further frame
\* on it, also when the hooks of another frame of the connection settle
\* after the close.
C34_NoSendAfterClose ==
  \A c \in Conns : \A n \in 1..Len(conns[c].out) :
    conns[c].out[n].op = "send" => \A b \in 1..(n - 1) : conns[c].out[b].op # "close"

\* C35: once destroy() has completed the engine invokes no hook and issues
\* no response on any connection, neither for a frame received after
\* destroy() nor for a frame whose hooks were pending when it was called.
C35_SilentAfterDestroy ==
  [][\A c \in Conns :
       (conns[c].st # "none" /\ destroyed[conns[c].inst]) =>
         /\ \A m \in NewFrames(c) : conns'[c].frames[m].hooks = <<>>
         /\ \A n \in NewCalls(c) : conns'[c].out[n].op # "send"]_vars

\* the calls that answer frame k of connection c: a default response or a close
Answers(c, k) ==
  {n \in 1..Len(conns[c].out) : conns[c].out[n].f = k /\ conns[c].out[n].op \in {"send", "close"}}

\* C36: every frame that is classified as a known kind is eventually
\* answered by exactly one default response or exactly one close of its
\* connection, provided that every hook invoked for it resolves and the
\* connection stays open.
C36_EveryFrameAnswered ==
  /\ [](\A c \in Conns : \A k \in 1..Len(conns[c].frames) : Cardinality(Answers(c, k)) <= 1)
  /\ \A c \in Conns : \A k \in 1..MaxFrames :
       (k <= Len(conns[c].frames) /\ KindOf(conns[c].frames[k]).k = "match")
         ~> \/ Cardinality(Answers(c, k)) = 1
            \/ conns[c].st # "open"
            \/ k <= Len(conns[c].frames) /\ conns[c].frames[k].st = "rejected"

\* C37: when several hooks of one fan-in resolved with numbers above 0, the
\* then-callback closes the connection with the number of the hook that
\* comes first in the list of the frame, the order of registration,
\* whatever the order in which the hooks settled; it sends nothing.
C37_EarliestRegisteredCode ==
  [][\A c \in Conns : \A k \in 1..Len(conns[c].frames) :
       LET old == conns[c].frames[k]
           positive == {j \in 1..Len(old.res) : IsCode(old.res[j])}
           first == CHOOSE j \in positive : \A j2 \in positive : j <= j2
       IN  (FanInReady(c, k) /\ Cardinality(positive) > 1 /\ conns'[c].frames[k].st # "fanin") =>
             /\ \A n \in CallsFor(c, k) :
                  /\ conns'[c].out[n].op = "close"
                  /\ conns'[c].out[n].v = old.res[first]
             /\ ~destroyed[conns[c].inst] => Cardinality(CallsFor(c, k)) = 1]_vars
\* f2 was registered before f1, both resolved with a number above 0, and
\* the connection was closed with 4004, the number of f2
C37_Witness ==
  /\ applied.fn = "then"
  /\ applied.data.hooks = <<"f2", "f1">>
  /\ applied.data.result = <<Num(4004), Num(4003)>>
  /\ LET out == conns[applied.data.c].out
     IN  /\ out[Len(out)].op = "close"
         /\ out[Len(out)].f = applied.data.k
         /\ out[Len(out)].v = Num(4004)

\* C38: when stopServer throws during destroy(), destroy() fails with that
\* error and the instance stays active: isDestroyed() answers false, every
\* hook list and flag is as before, no method is replaced; and a call of
\* destroy() whose stopServer returns then destroys the instance.
C38_FailedDestroyKeepsActive ==
  [][\A i \in Insts :
       stopCalls'[i] = stopCalls[i] + 1 =>
         IF applied.data.failures[i] > 0
         THEN /\ applied'.resp = Throw("stopServerError")
              /\ isDestroyed(i)' = Ret(Bool(FALSE))
              /\ hooks'[i] = hooks[i]
              /\ own'[i] = own[i] /\ own'[i] = {}
              /\ console'[i] = console[i]
              /\ destroy(i)' = Ret(Undefined)
         ELSE /\ applied'.resp = Ret(Undefined)
              /\ isDestroyed(i)' = Ret(Bool(TRUE))]_vars
\* destroy() of the WebSocket instance has succeeded after its stopServer
\* threw twice, with a hook registered before the first call
C38_Witness ==
  /\ applied.fn = "destroy" /\ applied.cmd = "WebSocket"
  /\ applied.resp = Ret(Undefined)
  /\ stopCalls["WebSocket"] = 3
  /\ destroyed["WebSocket"]
  /\ ops > 0

\* C39: a registry call changes only what it is for: addHook, removeHook
\* and removeAllHooks change no active flag (a list switched off stays
\* off when it is emptied and filled again), toggleHooks changes no list,
\* and no call changes the list or the flag of a name other than its own.
C39_FrameEffects ==
  call.op # "none" =>
    \A n \in hookNameSet :
      LET b == call.before[n]
          a == call.after[n]
      IN  IF b.k # "entry" THEN a = b
          ELSE /\ a.k = "entry"
               /\ call.op \in {"addHook", "removeHook", "removeAllHooks"} => a.active = b.active
               /\ call.op = "toggleHooks" => a.list = b.list
               /\ n # call.name => a = b
\* the list of AUTHORIZE, switched off and empty, is filled again and stays
\* off, while the list of DEEP_LINK_CHANNEL keeps its two hooks and its flag
C39_Witness ==
  /\ call.op = "addHook" /\ call.name = "AUTHORIZE"
  /\ call.before["AUTHORIZE"] = Entry(<<>>, FALSE)
  /\ call.after["AUTHORIZE"] = Entry(<<"f1">>, FALSE)
  /\ call.before["DEEP_LINK_CHANNEL"] = Entry(<<"f2", "f1">>, TRUE)
  /\ call.after["DEEP_LINK_CHANNEL"] = Entry(<<"f2", "f1">>, TRUE)
  /\ snapshot.has /\ snapshot.name = "AUTHORIZE" /\ snapshot.items = <<"f1", "f2">>

\* the servers of the WebSocket transport that are binding or listening
OpenServers == {p \in Ports("WebSocket") : servers["WebSocket"][p] \in {"binding", "listening"}}

\* C40: during the negotiation no candidate is attempted twice; the server
\* of every candidate that failed to bind is closed; when the negotiation
\* has settled at most one server is open, the one it resolved with, and
\* none when it failed; after it has resolved no candidate is attempted.
C40_NegotiationResources ==
  /\ [][\A p \in Ports("WebSocket") :
          /\ (servers'["WebSocket"][p] = "binding" /\ servers["WebSocket"][p] # "binding")
               => servers["WebSocket"][p] = "none" /\ details["WebSocket"].st = "pending"
          /\ servers["WebSocket"][p] = "closed" => servers'["WebSocket"][p] = "closed"
          /\ (/\ servers["WebSocket"][p] = "binding" /\ servers'["WebSocket"][p] # "binding"
              /\ p \in busy["WebSocket"])
               => servers'["WebSocket"][p] = "closed"]_vars
  /\ [](/\ \A p \in Attempted : p # port["WebSocket"] => servers["WebSocket"][p] = "closed"
        /\ Cardinality(OpenServers) <= 1
        /\ details["WebSocket"].st = "resolved"
             => /\ OpenServers = {port["WebSocket"]}
                /\ servers["WebSocket"][port["WebSocket"]] = "listening"
        /\ details["WebSocket"].st = "rejected" => OpenServers = {})
  /\ [](applied.fn = "getServer"
          => \A m, n \in 1..Len(applied.data.tried) :
               applied.data.tried[m] = applied.data.tried[n] => m = n)
\* with the first and the third candidate busy the negotiation has resolved
\* with the second: the server of the first is closed, the third was never
\* attempted
C40_Witness ==
  /\ busy["WebSocket"] = {WsStart, WsStart + 2}
  /\ details["WebSocket"].st = "resolved" /\ port["WebSocket"] = WsStart + 1
  /\ servers["WebSocket"][WsStart] = "closed"
  /\ servers["WebSocket"][WsStart + 1] = "listening"
  /\ \A p \in (WsStart + 2)..WsEnd : servers["WebSocket"][p] = "none"
  /\ applied.fn = "getServer" /\ applied.data.tried = <<2, 3>>
  /\ applied.data.busy = {2, 4} /\ applied.resp = Ret(Num(3))

=============================================================================
